---- MODULE Spec2Model ----
(***************************************************************************)
(* The file-chunker store: FileManager (upload, retrieve, delete, update)  *)
(* over the chunk directory, the metadata directory and the in-memory      *)
(* ChunkReferenceManager.  One action per FileManager call, each modelling *)
(* the whole call.  CHUNK_SIZE is scaled from 1 MiB down to 2 bytes and    *)
(* the input files are runs of one byte value, so a file is a run of full  *)
(* chunks followed by at most one shorter chunk.                           *)
(*                                                                         *)
(*   Spec            the calls, one at a time, no failure, one lifetime    *)
(*   SpecIO          Spec and the calls in which a filesystem step fails   *)
(*   SpecRestart     Spec and the restart of the process                   *)
(*   SpecConcurrent  uploadFile on two caller threads, step by step        *)
(***************************************************************************)
EXTENDS Integers, Sequences, FiniteSets, TLC

VARIABLES
    metadata_files,    \* metadata directory: filename -> FileMetadata record
    chunk_files,       \* chunks directory: cid -> bytes of the file named cid
    reference_counts,  \* ChunkReferenceManager::reference_counts (cid -> int)
    output_file,       \* file at retrieve's output path: <<>> absent, <<bytes>> present
    write_log,         \* cids whose chunk file the last call wrote, in write order
    ret,               \* the last call and what it returned, see Returned
    uploaded,          \* history: filename -> bytes of the input last stored under it
    raced,             \* history: some handle has yielded a value other than its chunk's CID
    ncalls,            \* number of FileManager calls made so far
    unparsable_metadata, \* filenames whose metadata file exists but holds no record
    threads,           \* caller threads inside uploadFile: thread -> its locals
    pool               \* the ThreadPool: queue, stop flag, workers, handles

vars == <<metadata_files, chunk_files, reference_counts, output_file, write_log, ret,
          uploaded, raced, ncalls, unparsable_metadata, threads, pool>>

-----------------------------------------------------------------------------
(* Bounds and constants *)

\* longest input file, in bytes
MaxLen == 4
\* number of FileManager calls in one process lifetime
MaxCalls == 3
\* ChunkConfig::CHUNK_SIZE (1024 * 1024 in the source, scaled)
CHUNK_SIZE == 2

ByteValues == {0}
Filenames == {"f1", "f2"}
ContentTypes == {"text/plain", "text/markdown"}

\* contents an input file can have
Contents == UNION {[1..n -> ByteValues] : n \in 0..MaxLen}
\* an input path: <<>> names no file, <<bytes>> a readable file holding bytes
InputFiles == {<<>>} \cup {<<b>> : b \in Contents}

-----------------------------------------------------------------------------
(* Hasher and Chunk *)

\* CIDUtility::generateSHA256: the digest as a number, one digit per byte,
\* so that distinct byte sequences (the empty one included) get distinct CIDs.
RECURSIVE generateSHA256(_)
generateSHA256(data_buffer) ==
    IF data_buffer = <<>>
    THEN 0
    ELSE generateSHA256(SubSeq(data_buffer, 1, Len(data_buffer) - 1)) * (Cardinality(ByteValues) + 1)
         + data_buffer[Len(data_buffer)] + 1

\* Chunk::Chunk(std::vector<char>): the data and its CID
Chunk(chunk_data) == [data |-> chunk_data, cid |-> generateSHA256(chunk_data)]

\* What a handle can yield in place of its chunk's CID when the unit read
\* out_chunks[idx] while emplace_back relocated the vector: a moved-from or
\* torn string, which is the name of no chunk file.
TornCID == -1

-----------------------------------------------------------------------------
(* Chunk store *)

\* fs::exists(chunk_dir / cid)
ChunkExists(files, cid) == cid \in DOMAIN files

\* Chunk::save: write data to <chunks_dir>/<cid> unless that path exists.
\* st = [files, counts, log]; log collects the cids written.
save(st, chunk) ==
    IF ChunkExists(st.files, chunk.cid)
    THEN st
    ELSE [st EXCEPT !.files = (chunk.cid :> chunk.data) @@ st.files,
                    !.log   = Append(st.log, chunk.cid)]

\* Chunk::loadData: <<>> when the chunk file is not found (it throws),
\* <<bytes>> otherwise
loadData(files, chunk_cid) ==
    IF ~ChunkExists(files, chunk_cid) THEN <<>> ELSE <<files[chunk_cid]>>

\* fs::remove(chunk_path)
RemoveChunk(files, cid) == [c \in (DOMAIN files) \ {cid} |-> files[c]]

-----------------------------------------------------------------------------
(* Reference registry *)

\* ChunkReferenceManager::getCount
getCount(counts, chunk_cid) ==
    IF chunk_cid \in DOMAIN counts THEN counts[chunk_cid] ELSE 0

\* ChunkReferenceManager::increment: reference_counts[chunk_cid]++
increment(counts, chunk_cid) ==
    (chunk_cid :> (getCount(counts, chunk_cid) + 1)) @@ counts

\* decrement without the test for an absent or non-positive entry:
\* reference_counts[chunk_cid]-- on whatever is there
decrement_Unguarded(counts, chunk_cid) ==
    [counts |-> (chunk_cid :> (getCount(counts, chunk_cid) - 1)) @@ counts,
     value  |-> getCount(counts, chunk_cid) - 1]

\* ChunkReferenceManager::decrement: [counts, value] with value the returned int
decrement(counts, chunk_cid) ==
    IF chunk_cid \notin DOMAIN counts \/ counts[chunk_cid] <= 0
    THEN [counts |-> counts, value |-> 0]
    ELSE [counts |-> [counts EXCEPT ![chunk_cid] = @ - 1],
          value  |-> counts[chunk_cid] - 1]

-----------------------------------------------------------------------------
(* Metadata store *)

\* FileMetadata(filename, size, type, cids); created_at (the wall clock at
\* construction) is left out of the record.
FileMetadata(filename, size, type, cids) ==
    [original_filename |-> filename, file_size_bytes |-> size,
     content_type |-> type, chunk_cids |-> cids]

\* to_json: the JSON object written to <metadata_dir>/<filename>.json
to_json(m) ==
    [filename |-> m.original_filename, size |-> m.file_size_bytes,
     content_type |-> m.content_type, chunks |-> m.chunk_cids]

\* from_json
from_json(j) ==
    [original_filename |-> j.filename, file_size_bytes |-> j.size,
     content_type |-> j.content_type, chunk_cids |-> j.chunks]

\* fs::exists(metadata_dir / (filename + ".json"))
MetadataExists(mfiles, filename) == filename \in DOMAIN mfiles

\* FileMetadata::save: overwrite <metadata_dir>/<original_filename>.json
SaveMetadata(mfiles, m) == (m.original_filename :> to_json(m)) @@ mfiles

\* FileMetadata::load, for a file that exists
LoadMetadata(mfiles, filename) == from_json(mfiles[filename])

\* fs::remove(metadata_path)
RemoveMetadata(mfiles, filename) == [f \in (DOMAIN mfiles) \ {filename} |-> mfiles[f]]

-----------------------------------------------------------------------------
(* File orchestrator helpers *)

\* The read loop with the test after the last read widened to gcount() >= 0:
\* it pushes a chunk for the remainder also when the remainder is empty.
RECURSIVE ReadChunks_EmptyTail(_)
ReadChunks_EmptyTail(bytes) ==
    IF Len(bytes) >= CHUNK_SIZE
    THEN <<Chunk(SubSeq(bytes, 1, CHUNK_SIZE))>>
         \o ReadChunks_EmptyTail(SubSeq(bytes, CHUNK_SIZE + 1, Len(bytes)))
    ELSE <<Chunk(bytes)>>

\* The read loop of processFileIntoChunks: full chunks while a read of
\* CHUNK_SIZE bytes succeeds, then the partial chunk when gcount() > 0.
RECURSIVE ReadChunks(_)
ReadChunks(bytes) ==
    IF Len(bytes) >= CHUNK_SIZE
    THEN <<Chunk(SubSeq(bytes, 1, CHUNK_SIZE))>>
         \o ReadChunks(SubSeq(bytes, CHUNK_SIZE + 1, Len(bytes)))
    ELSE IF Len(bytes) > 0 THEN <<Chunk(bytes)>> ELSE <<>>

\* The values fut.get() can return for the unit of chunk idx (1-based).  The
\* unit reads out_chunks[idx].cid on a worker with nothing ordering it before
\* the reader's later emplace_back calls; an append that relocates the vector
\* races with the read.  Only the last chunk's unit has no append after it.
HandleValues(chunks, idx) ==
    IF idx < Len(chunks) THEN {chunks[idx].cid, TornCID} ELSE {chunks[idx].cid}

\* processFileIntoChunks on a readable file: the possible results, each the
\* chunks pushed to out_chunks and the returned chunk_cids.
processFileIntoChunks(bytes) ==
    LET chunks == ReadChunks(bytes)
        n == Len(chunks)
    IN  {[chunks |-> chunks, chunk_cids |-> cids] :
            cids \in {c \in [1..n -> {chunks[i].cid : i \in 1..n} \cup {TornCID}] :
                        \A i \in 1..n : c[i] \in HandleValues(chunks, i)}}

\* The loop "chunk.save(config); ref_manager.increment(chunk.cid);"
RECURSIVE SaveAndIncrement(_, _)
SaveAndIncrement(st, chunks) ==
    IF chunks = <<>>
    THEN st
    ELSE LET saved == save(st, Head(chunks))
         IN  SaveAndIncrement(
                 [saved EXCEPT !.counts = increment(saved.counts, Head(chunks).cid)],
                 Tail(chunks))

\* deleteChunkFileIfUnreferenced that decrements and leaves the chunk file
deleteChunkFileIfUnreferenced_KeepFile(st, chunk_cid) ==
    [st EXCEPT !.counts = decrement(st.counts, chunk_cid).counts]

\* FileManager::deleteChunkFileIfUnreferenced
deleteChunkFileIfUnreferenced(st, chunk_cid) ==
    LET d == decrement(st.counts, chunk_cid)
    IN  IF d.value = 0 /\ ChunkExists(st.files, chunk_cid)
        THEN [st EXCEPT !.counts = d.counts, !.files = RemoveChunk(st.files, chunk_cid)]
        ELSE [st EXCEPT !.counts = d.counts]

\* A loop "for cid in cids: deleteChunkFileIfUnreferenced(cid)"
RECURSIVE DeletePass(_, _)
DeletePass(st, cids) ==
    IF cids = <<>>
    THEN st
    ELSE DeletePass(deleteChunkFileIfUnreferenced(st, Head(cids)), Tail(cids))

\* std::set<std::string>(v.begin(), v.end())
CidSet(cids) == {cids[i] : i \in 1..Len(cids)}

\* A std::set / set_difference result as the vector it is iterated as (ascending)
RECURSIVE Ascending(_)
Ascending(S) ==
    IF S = {} THEN <<>>
    ELSE LET m == CHOOSE x \in S : \A y \in S : x <= y
         IN  <<m>> \o Ascending(S \ {m})

\* std::set_difference(old_cids_set, new_cids_set)
cids_to_decrement(old_cids, new_cids) == Ascending(CidSet(old_cids) \ CidSet(new_cids))

\* The store a call works on
Store == [files |-> chunk_files, counts |-> reference_counts, log |-> <<>>]

-----------------------------------------------------------------------------
(* ThreadPool: the object *)

\* number of workers of the FileManager's pool (hardware_concurrency, scaled)
PoolSize == 2
\* the units of work submitted to a pool
Units == {"u1", "u2"}
\* what unit u returns
Result(u) == IF u = "u1" THEN 11 ELSE 22

\* A handle (std::future): "none" before the submission, "pending" once the
\* unit is queued, "ready" with the unit's result, "thrown" when enqueue threw
Handle(state, value) == [state |-> state, value |-> value]

\* No ThreadPool object: before the constructor, or after it threw.
\* submitted and dequeued record the order in which units were pushed on the
\* queue and popped from it.
NoPool(state) ==
    [state |-> state, stop_all |-> FALSE, tasks |-> <<>>, workers |-> <<>>,
     handles |-> [u \in Units |-> Handle("none", 0)],
     runs |-> [u \in Units |-> 0], ran_on |-> [u \in Units |-> {}],
     notify |-> {}, dtor |-> "idle",
     submitted |-> <<>>, dequeued |-> <<>>]

\* ThreadPool::ThreadPool(num_threads), num_threads > 0: stop_all(false), an
\* empty queue and num_threads workers at the head of their loop
NewPool(num_threads) ==
    [NoPool("running") EXCEPT
        !.workers = [w \in 1..num_threads |-> [pc |-> "start", unit |-> ""]]]

-----------------------------------------------------------------------------
(* FileManager calls *)

\* The record of a finished call: which call on which filename, what came
\* back ("metadata", "true", "false", or "throw" for an exception), and the
\* returned FileMetadata as <<m>> (<<>> when none was returned).
Returned(call, filename, kind, metadata) ==
    [call |-> call, name |-> filename, kind |-> kind, metadata |-> metadata]

Init ==
    /\ metadata_files = <<>>
    /\ chunk_files = <<>>
    /\ reference_counts = <<>>
    /\ output_file = <<>>
    /\ write_log = <<>>
    /\ ret = Returned("none", "", "none", <<>>)
    /\ uploaded = <<>>
    /\ raced = FALSE
    /\ ncalls = 0
    /\ unparsable_metadata = {}
    /\ threads = <<>>
    /\ pool = NewPool(PoolSize)

\* A call that throws or fails before it touched the stores
Rejected(call, filename, kind) ==
    /\ ret' = Returned(call, filename, kind, <<>>)
    /\ write_log' = <<>>
    /\ UNCHANGED <<metadata_files, chunk_files, reference_counts, output_file, uploaded, raced,
                   unparsable_metadata, threads, pool>>

\* FileManager::uploadFile(input_filepath, original_filename, content_type)
uploadFile(input, original_filename, content_type) ==
    /\ ncalls < MaxCalls
    /\ ncalls' = ncalls + 1
    /\ IF input = <<>>
       THEN Rejected("uploadFile", original_filename, "throw")   \* fs::file_size throws
       ELSE \E p \in processFileIntoChunks(input[1]) :
              LET st == SaveAndIncrement(Store, p.chunks)
                  metadata == FileMetadata(original_filename, Len(input[1]),
                                           content_type, p.chunk_cids)
              IN  /\ chunk_files' = st.files
                  /\ reference_counts' = st.counts
                  /\ write_log' = st.log
                  /\ metadata_files' = SaveMetadata(metadata_files, metadata)
                  /\ ret' = Returned("uploadFile", original_filename, "metadata", <<metadata>>)
                  /\ uploaded' = (original_filename :> input[1]) @@ uploaded
                  /\ raced' = (raced \/ TornCID \in CidSet(p.chunk_cids))
                  /\ unparsable_metadata' = unparsable_metadata \ {original_filename}
                  /\ UNCHANGED <<output_file, threads, pool>>

\* The loop of retrieveFile over chunk_cids: <<>> when a chunk fails to load,
\* <<bytes>> with everything written to the output otherwise
RECURSIVE WriteChunks(_, _, _)
WriteChunks(files, cids, written) ==
    IF cids = <<>>
    THEN <<written>>
    ELSE LET chunk_data == loadData(files, Head(cids))
         IN  IF chunk_data = <<>>
             THEN <<>>
             ELSE WriteChunks(files, Tail(cids), written \o chunk_data[1])

\* The bytes the loop of retrieveFile has written when it stops, at the end
\* of the list or at the first chunk that fails to load
RECURSIVE WrittenAtStop(_, _, _)
WrittenAtStop(files, cids, written) ==
    IF cids = <<>> \/ loadData(files, Head(cids)) = <<>>
    THEN written
    ELSE WrittenAtStop(files, Tail(cids), written \o loadData(files, Head(cids))[1])

\* retrieveFile without the cleanup of its catch block: after a failure the
\* output path keeps what was there, or what the loop had written
RetrieveResult_NoCleanup(mfiles, files, out, original_filename) ==
    IF ~MetadataExists(mfiles, original_filename)
    THEN [ok |-> FALSE, output |-> out]
    ELSE LET cids == LoadMetadata(mfiles, original_filename).chunk_cids
             w == WriteChunks(files, cids, <<>>)
         IN  IF w = <<>>
             THEN [ok |-> FALSE, output |-> <<WrittenAtStop(files, cids, <<>>)>>]
             ELSE [ok |-> TRUE, output |-> w]

\* What retrieveFile returns and leaves at the output path, given the stores
\* and the file now at that path
RetrieveResult(mfiles, files, out, original_filename) ==
    IF ~MetadataExists(mfiles, original_filename)
    THEN [ok |-> FALSE, output |-> <<>>]           \* catch: output removed if it exists
    ELSE LET w == WriteChunks(files, LoadMetadata(mfiles, original_filename).chunk_cids, <<>>)
         IN  IF w = <<>>
             THEN [ok |-> FALSE, output |-> <<>>]  \* catch: partial output removed
             ELSE [ok |-> TRUE, output |-> w]

\* FileManager::retrieveFile(original_filename, output_filepath)
retrieveFile(original_filename) ==
    /\ ncalls < MaxCalls
    /\ ncalls' = ncalls + 1
    /\ LET r == RetrieveResult(metadata_files, chunk_files, output_file, original_filename)
       IN  /\ output_file' = r.output
           /\ ret' = Returned("retrieveFile", original_filename,
                            IF r.ok THEN "true" ELSE "false", <<>>)
    /\ write_log' = <<>>
    /\ UNCHANGED <<metadata_files, chunk_files, reference_counts, uploaded, raced,
                   unparsable_metadata, threads, pool>>

\* deleteFile without the load of the record at its head: a filename with no
\* record is reported deleted and the registry is cleared
deleteFile_NoLoad(original_filename) ==
    /\ ncalls < MaxCalls
    /\ ncalls' = ncalls + 1
    /\ IF ~MetadataExists(metadata_files, original_filename)
       THEN /\ reference_counts' = <<>>
            /\ ret' = Returned("deleteFile", original_filename, "true", <<>>)
            /\ write_log' = <<>>
            /\ UNCHANGED <<metadata_files, chunk_files, output_file, uploaded, raced,
                           unparsable_metadata, threads, pool>>
       ELSE LET metadata == LoadMetadata(metadata_files, original_filename)
                st == DeletePass(Store, metadata.chunk_cids)
            IN  /\ chunk_files' = st.files
                /\ reference_counts' = st.counts
                /\ write_log' = st.log
                /\ metadata_files' = RemoveMetadata(metadata_files, original_filename)
                /\ ret' = Returned("deleteFile", original_filename, "true", <<>>)
                /\ uploaded' = [f \in (DOMAIN uploaded) \ {original_filename} |-> uploaded[f]]
                /\ UNCHANGED <<output_file, raced, unparsable_metadata, threads, pool>>

\* FileManager::deleteFile(original_filename)
deleteFile(original_filename) ==
    /\ ncalls < MaxCalls
    /\ ncalls' = ncalls + 1
    /\ IF ~MetadataExists(metadata_files, original_filename)
       THEN Rejected("deleteFile", original_filename, "false")   \* load throws, caught
       ELSE LET metadata == LoadMetadata(metadata_files, original_filename)
                st == DeletePass(Store, metadata.chunk_cids)
            IN  /\ chunk_files' = st.files
                /\ reference_counts' = st.counts
                /\ write_log' = st.log
                /\ metadata_files' = RemoveMetadata(metadata_files, original_filename)
                /\ ret' = Returned("deleteFile", original_filename, "true", <<>>)
                /\ uploaded' = [f \in (DOMAIN uploaded) \ {original_filename} |-> uploaded[f]]
                /\ UNCHANGED <<output_file, raced, unparsable_metadata, threads, pool>>

\* updateFile that chunks, saves and counts the new input before it looks for
\* the old record, and stores a record also when there was none
updateFile_CreateOnUpdate(original_filename, updated, new_content_type) ==
    /\ ncalls < MaxCalls
    /\ ncalls' = ncalls + 1
    /\ IF updated = <<>>
       THEN Rejected("updateFile", original_filename, "throw")
       ELSE \E p \in processFileIntoChunks(updated[1]) :
              LET old_cids == IF MetadataExists(metadata_files, original_filename)
                              THEN LoadMetadata(metadata_files, original_filename).chunk_cids
                              ELSE <<>>
                  added == SaveAndIncrement(Store, p.chunks)
                  st == DeletePass(added, cids_to_decrement(old_cids, p.chunk_cids))
                  updated_metadata == FileMetadata(original_filename, Len(updated[1]),
                                                   new_content_type, p.chunk_cids)
              IN  /\ chunk_files' = st.files
                  /\ reference_counts' = st.counts
                  /\ write_log' = st.log
                  /\ metadata_files' = SaveMetadata(metadata_files, updated_metadata)
                  /\ ret' = Returned("updateFile", original_filename, "metadata",
                                      <<updated_metadata>>)
                  /\ uploaded' = (original_filename :> updated[1]) @@ uploaded
                  /\ raced' = (raced \/ TornCID \in CidSet(p.chunk_cids))
                  /\ unparsable_metadata' = unparsable_metadata \ {original_filename}
                  /\ UNCHANGED <<output_file, threads, pool>>

\* updateFile that takes a missing new input for an empty one
updateFile_MissingAsEmpty(original_filename, updated, new_content_type) ==
    /\ ncalls < MaxCalls
    /\ ncalls' = ncalls + 1
    /\ IF ~MetadataExists(metadata_files, original_filename)
       THEN Rejected("updateFile", original_filename, "throw")
       ELSE LET bytes == IF updated = <<>> THEN <<>> ELSE updated[1]
            IN  \E p \in processFileIntoChunks(bytes) :
                  LET old_metadata == LoadMetadata(metadata_files, original_filename)
                      added == SaveAndIncrement(Store, p.chunks)
                      st == DeletePass(added, cids_to_decrement(old_metadata.chunk_cids,
                                                                p.chunk_cids))
                      updated_metadata == FileMetadata(original_filename, Len(bytes),
                                                       new_content_type, p.chunk_cids)
                  IN  /\ chunk_files' = st.files
                      /\ reference_counts' = st.counts
                      /\ write_log' = st.log
                      /\ metadata_files' = SaveMetadata(metadata_files, updated_metadata)
                      /\ ret' = Returned("updateFile", original_filename, "metadata",
                                          <<updated_metadata>>)
                      /\ uploaded' = (original_filename :> bytes) @@ uploaded
                      /\ raced' = (raced \/ TornCID \in CidSet(p.chunk_cids))
                      /\ UNCHANGED <<output_file, unparsable_metadata, threads, pool>>

\* FileManager::updateFile(original_filename, updated_filepath, new_content_type)
updateFile(original_filename, updated, new_content_type) ==
    /\ ncalls < MaxCalls
    /\ ncalls' = ncalls + 1
    /\ IF ~MetadataExists(metadata_files, original_filename) \/ updated = <<>>
       THEN \* no old metadata, or processFileIntoChunks throws
            Rejected("updateFile", original_filename, "throw")
       ELSE \E p \in processFileIntoChunks(updated[1]) :
              LET old_metadata == LoadMetadata(metadata_files, original_filename)
                  added == SaveAndIncrement(Store, p.chunks)
                  st == DeletePass(added, cids_to_decrement(old_metadata.chunk_cids,
                                                            p.chunk_cids))
                  updated_metadata == FileMetadata(original_filename, Len(updated[1]),
                                                   new_content_type, p.chunk_cids)
              IN  /\ chunk_files' = st.files
                  /\ reference_counts' = st.counts
                  /\ write_log' = st.log
                  /\ metadata_files' = SaveMetadata(metadata_files, updated_metadata)
                  /\ ret' = Returned("updateFile", original_filename, "metadata",
                                      <<updated_metadata>>)
                  /\ uploaded' = (original_filename :> updated[1]) @@ uploaded
                  /\ raced' = (raced \/ TornCID \in CidSet(p.chunk_cids))
                  /\ UNCHANGED <<output_file, unparsable_metadata, threads, pool>>

Next ==
    \/ \E input \in InputFiles, name \in Filenames, type \in ContentTypes :
          uploadFile(input, name, type)
    \/ \E name \in Filenames : retrieveFile(name)
    \/ \E name \in Filenames : deleteFile(name)
    \/ \E name \in Filenames, input \in InputFiles, type \in ContentTypes :
          updateFile(name, input, type)

Spec == Init /\ [][Next]_vars

-----------------------------------------------------------------------------
(* FileManager calls in which a filesystem operation fails *)

\* Chunk::save when it throws, the chunk file being absent: the ofstream does
\* not open (the chunks directory is as before) or the write fails after the
\* open (a file holding a strict prefix of the data is left at the path).
SaveThrowsOutcomes(st, chunk) ==
    {st} \cup {[st EXCEPT !.files = (chunk.cid :> SubSeq(chunk.data, 1, k)) @@ st.files,
                          !.log   = Append(st.log, chunk.cid)] :
                 k \in 0..(Len(chunk.data) - 1)}

\* uploadFile_SaveThrows with the metadata record saved before the chunk loop
\* in place of after it: the failing save finds the record already stored.
uploadFile_SaveThrows_MetadataFirst(input, original_filename, content_type, n) ==
    /\ ncalls < MaxCalls
    /\ ncalls' = ncalls + 1
    /\ input # <<>>
    /\ n \in 1..Len(ReadChunks(input[1]))
    /\ LET chunks == ReadChunks(input[1])
           st == SaveAndIncrement(Store, SubSeq(chunks, 1, n - 1))
       IN  /\ ~ChunkExists(st.files, chunks[n].cid)
           /\ chunk_files' = st.files
           /\ write_log' = st.log
           /\ reference_counts' = st.counts
           /\ metadata_files' =
                 SaveMetadata(metadata_files,
                              FileMetadata(original_filename, Len(input[1]), content_type,
                                           [i \in 1..Len(chunks) |-> chunks[i].cid]))
    /\ ret' = Returned("uploadFile", original_filename, "throw", <<>>)
    /\ UNCHANGED <<output_file, uploaded, raced, unparsable_metadata, threads, pool>>

\* uploadFile in which chunk.save of chunk n throws: chunks 1..n-1 are saved
\* and counted, chunk n is not counted, the exception leaves uploadFile
\* before the metadata is built.
uploadFile_SaveThrows(input, original_filename, content_type, n) ==
    /\ ncalls < MaxCalls
    /\ ncalls' = ncalls + 1
    /\ input # <<>>
    /\ n \in 1..Len(ReadChunks(input[1]))
    /\ LET chunks == ReadChunks(input[1])
           st == SaveAndIncrement(Store, SubSeq(chunks, 1, n - 1))
       IN  /\ ~ChunkExists(st.files, chunks[n].cid)
           /\ \E failed \in SaveThrowsOutcomes(st, chunks[n]) :
                 /\ chunk_files' = failed.files
                 /\ write_log' = failed.log
           /\ reference_counts' = st.counts
    /\ ret' = Returned("uploadFile", original_filename, "throw", <<>>)
    /\ UNCHANGED <<metadata_files, output_file, uploaded, raced, unparsable_metadata, threads, pool>>

\* uploadFile in which metadata.save throws after every chunk was saved and
\* counted: the ofstream does not open (the metadata file is as before), or
\* the write fails after the open has truncated the file (what is left at
\* the path is no record, whatever was stored there before).
uploadFile_MetadataSaveThrows(input, original_filename, content_type) ==
    /\ ncalls < MaxCalls
    /\ ncalls' = ncalls + 1
    /\ input # <<>>
    /\ LET st == SaveAndIncrement(Store, ReadChunks(input[1]))
       IN  /\ chunk_files' = st.files
           /\ reference_counts' = st.counts
           /\ write_log' = st.log
    /\ \/ UNCHANGED <<metadata_files, unparsable_metadata, uploaded>>
       \/ /\ metadata_files' = RemoveMetadata(metadata_files, original_filename)
          /\ unparsable_metadata' = unparsable_metadata \cup {original_filename}
          /\ uploaded' = [f \in (DOMAIN uploaded) \ {original_filename} |-> uploaded[f]]
    /\ ret' = Returned("uploadFile", original_filename, "throw", <<>>)
    /\ UNCHANGED <<output_file, raced, threads, pool>>

\* retrieveFile in which the output does not open or a write to it fails:
\* the exception is caught, the output path is removed, false is returned.
retrieveFile_OutputThrows(original_filename) ==
    /\ ncalls < MaxCalls
    /\ ncalls' = ncalls + 1
    /\ MetadataExists(metadata_files, original_filename)
    /\ output_file' = <<>>
    /\ ret' = Returned("retrieveFile", original_filename, "false", <<>>)
    /\ write_log' = <<>>
    /\ UNCHANGED <<metadata_files, chunk_files, reference_counts, uploaded, raced,
                   unparsable_metadata, threads, pool>>

\* deleteChunkFileIfUnreferenced when fs::remove, if reached, throws: the
\* count is decremented, the filesystem_error is caught, the file stays.
deleteChunkFileIfUnreferenced_RemoveThrows(st, chunk_cid) ==
    [st EXCEPT !.counts = decrement(st.counts, chunk_cid).counts]

\* The loop of deleteFile if the filesystem_error were not caught: the pass
\* stops at the first CID of failing whose fs::remove is reached
RECURSIVE DeletePass_AbortOnThrow(_, _, _)
DeletePass_AbortOnThrow(st, cids, failing) ==
    IF cids = <<>>
    THEN st
    ELSE IF Head(cids) \in failing
         THEN LET d == deleteChunkFileIfUnreferenced_RemoveThrows(st, Head(cids))
              IN  IF getCount(d.counts, Head(cids)) = 0 /\ ChunkExists(d.files, Head(cids))
                  THEN d
                  ELSE DeletePass_AbortOnThrow(d, Tail(cids), failing)
         ELSE DeletePass_AbortOnThrow(deleteChunkFileIfUnreferenced(st, Head(cids)),
                                      Tail(cids), failing)

\* The loop of deleteFile when fs::remove throws for the CIDs in failing
RECURSIVE DeletePass_RemoveThrows(_, _, _)
DeletePass_RemoveThrows(st, cids, failing) ==
    IF cids = <<>>
    THEN st
    ELSE DeletePass_RemoveThrows(
             IF Head(cids) \in failing
             THEN deleteChunkFileIfUnreferenced_RemoveThrows(st, Head(cids))
             ELSE deleteChunkFileIfUnreferenced(st, Head(cids)),
             Tail(cids), failing)

\* deleteFile in which fs::remove of the chunk files in failing throws
deleteFile_RemoveThrows(original_filename, failing) ==
    /\ ncalls < MaxCalls
    /\ ncalls' = ncalls + 1
    /\ MetadataExists(metadata_files, original_filename)
    /\ LET metadata == LoadMetadata(metadata_files, original_filename)
           st == DeletePass_RemoveThrows(Store, metadata.chunk_cids, failing)
       IN  /\ failing \subseteq CidSet(metadata.chunk_cids)
           /\ \A cid \in failing :   \* fs::remove was reached for cid
                 ChunkExists(st.files, cid) /\ getCount(st.counts, cid) = 0
           /\ failing # {}
           /\ chunk_files' = st.files
           /\ reference_counts' = st.counts
           /\ write_log' = st.log
           /\ metadata_files' = RemoveMetadata(metadata_files, original_filename)
           /\ ret' = Returned("deleteFile", original_filename, "true", <<>>)
           /\ uploaded' = [f \in (DOMAIN uploaded) \ {original_filename} |-> uploaded[f]]
           /\ UNCHANGED <<output_file, raced, unparsable_metadata, threads, pool>>

\* every CID a chunk of a possible input has
AllCids == UNION {{ReadChunks(b)[i].cid : i \in 1..Len(ReadChunks(b))} : b \in Contents}

NextIO ==
    \/ Next
    \/ \E input \in InputFiles, name \in Filenames, type \in ContentTypes, n \in 1..MaxLen :
          uploadFile_SaveThrows(input, name, type, n)
    \/ \E input \in InputFiles, name \in Filenames, type \in ContentTypes :
          uploadFile_MetadataSaveThrows(input, name, type)
    \/ \E name \in Filenames : retrieveFile_OutputThrows(name)
    \/ \E name \in Filenames, failing \in SUBSET AllCids : deleteFile_RemoveThrows(name, failing)

SpecIO == Init /\ [][NextIO]_vars

-----------------------------------------------------------------------------
(* uploadFile on concurrent caller threads *)

\* the caller threads
Threads == {"t1", "t2"}

\* the filenames other threads are uploading or have uploaded
NamesOfOthers(t) == {threads[u].name : u \in (DOMAIN threads) \ {t}}

\* Thread t enters uploadFile with a readable input under a filename no
\* other thread uses: fs::file_size and processFileIntoChunks, which touch
\* only the thread's locals and the pool.
upload_Begin(t, input, original_filename, content_type) ==
    /\ t \notin DOMAIN threads
    /\ input # <<>>
    /\ original_filename \notin NamesOfOthers(t)
    /\ \E p \in processFileIntoChunks(input[1]) :
          /\ threads' = (t :> [name |-> original_filename, type |-> content_type,
                               input |-> input[1],
                               file_size |-> Len(input[1]), chunks |-> p.chunks,
                               chunk_cids |-> p.chunk_cids, idx |-> 1,
                               pc |-> IF p.chunks = <<>> THEN "metadata" ELSE "exists"])
                        @@ threads
          /\ raced' = (raced \/ TornCID \in CidSet(p.chunk_cids))
    /\ ncalls' = ncalls + 1
    /\ UNCHANGED <<pool, metadata_files, chunk_files, reference_counts, output_file, write_log,
                   ret, uploaded, unparsable_metadata>>

\* Chunk::save, the test fs::exists(chunk_path) for the thread's current chunk
save_Exists(t) ==
    /\ t \in DOMAIN threads
    /\ threads[t].pc = "exists"
    /\ threads' = [threads EXCEPT ![t].pc =
                      IF ChunkExists(chunk_files, threads[t].chunks[threads[t].idx].cid)
                      THEN "increment" ELSE "write"]
    /\ UNCHANGED <<pool, metadata_files, chunk_files, reference_counts, output_file, write_log,
                   ret, uploaded, raced, ncalls, unparsable_metadata>>

\* Chunk::save, the ofstream open and write: the file at the path is
\* replaced by the chunk's data, also when another thread wrote it meanwhile
save_Write(t) ==
    /\ t \in DOMAIN threads
    /\ threads[t].pc = "write"
    /\ LET chunk == threads[t].chunks[threads[t].idx]
       IN  chunk_files' = (chunk.cid :> chunk.data) @@ chunk_files
    /\ threads' = [threads EXCEPT ![t].pc = "increment"]
    /\ UNCHANGED <<pool, metadata_files, reference_counts, output_file, write_log,
                   ret, uploaded, raced, ncalls, unparsable_metadata>>

\* ref_manager.increment(chunk.cid) under the registry's mutex, and the step
\* of the loop to the next chunk
upload_Increment(t) ==
    /\ t \in DOMAIN threads
    /\ threads[t].pc = "increment"
    /\ reference_counts' = increment(reference_counts, threads[t].chunks[threads[t].idx].cid)
    /\ threads' = [threads EXCEPT ![t].idx = @ + 1,
                                  ![t].pc = IF threads[t].idx < Len(threads[t].chunks)
                                            THEN "exists" ELSE "metadata"]
    /\ UNCHANGED <<pool, metadata_files, chunk_files, output_file, write_log,
                   ret, uploaded, raced, ncalls, unparsable_metadata>>

\* The metadata record is built and saved, uploadFile returns it
upload_SaveMetadata(t) ==
    /\ t \in DOMAIN threads
    /\ threads[t].pc = "metadata"
    /\ LET metadata == FileMetadata(threads[t].name, threads[t].file_size,
                                    threads[t].type, threads[t].chunk_cids)
       IN  /\ metadata_files' = SaveMetadata(metadata_files, metadata)
           /\ ret' = Returned("uploadFile", threads[t].name, "metadata", <<metadata>>)
    /\ unparsable_metadata' = unparsable_metadata \ {threads[t].name}
    /\ uploaded' = (threads[t].name :> threads[t].input) @@ uploaded
    /\ threads' = [threads EXCEPT ![t].pc = "done"]
    /\ UNCHANGED <<pool, chunk_files, reference_counts, output_file, write_log, raced, ncalls>>

NextConcurrent ==
    \/ \E t \in Threads, input \in InputFiles, name \in Filenames, type \in ContentTypes :
          upload_Begin(t, input, name, type)
    \/ \E t \in Threads : save_Exists(t)
    \/ \E t \in Threads : save_Write(t)
    \/ \E t \in Threads : upload_Increment(t)
    \/ \E t \in Threads : upload_SaveMetadata(t)

SpecConcurrent == Init /\ [][NextConcurrent]_vars

-----------------------------------------------------------------------------
(* Process restart *)

\* The process ends and a new one is started on the same directories: the
\* new ChunkReferenceManager is constructed with an empty map, the chunk
\* files, the metadata files and the last retrieve's output are kept.
Restart ==
    /\ reference_counts # <<>>
    /\ reference_counts' = <<>>
    /\ ret' = Returned("none", "", "none", <<>>)
    /\ write_log' = <<>>
    /\ UNCHANGED <<metadata_files, chunk_files, output_file, uploaded, raced, ncalls,
                   unparsable_metadata, threads, pool>>

NextRestart ==
    \/ Next
    \/ Restart

SpecRestart == Init /\ [][NextRestart]_vars

-----------------------------------------------------------------------------
(* ThreadPool: constructor, enqueue, worker loop, destructor *)

\* everything but the pool
store_vars == <<metadata_files, chunk_files, reference_counts, output_file, write_log, ret,
                uploaded, raced, ncalls, unparsable_metadata, threads>>

\* the workers blocked in condition.wait
Waiting == {w \in DOMAIN pool.workers : pool.workers[w].pc = "waiting"}

\* a constructor without the test for zero threads
ThreadPool_ctor_ZeroAllowed(num_threads) ==
    /\ pool.state = "none"
    /\ pool' = NewPool(num_threads)
    /\ UNCHANGED store_vars

\* ThreadPool::ThreadPool(num_threads): throws for 0 before any worker is
\* started, and otherwise starts num_threads workers
ThreadPool_ctor(num_threads) ==
    /\ pool.state = "none"
    /\ pool' = IF num_threads = 0 THEN NoPool("failed") ELSE NewPool(num_threads)
    /\ UNCHANGED store_vars

\* enqueue without the test of stop_all
enqueue_Push_Unchecked(u) ==
    /\ pool.state = "running"
    /\ pool.handles[u].state = "none"
    /\ pool' = [pool EXCEPT !.tasks = Append(@, u),
                            !.handles[u] = Handle("pending", 0),
                            !.notify = @ \cup {u},
                            !.submitted = Append(@, u)]
    /\ UNCHANGED store_vars

\* ThreadPool::enqueue, the block under queue_mutex: throw when stop_all is
\* set, otherwise push the task; the future was taken from the task before
enqueue_Push(u) ==
    /\ pool.state = "running"
    /\ pool.handles[u].state = "none"
    /\ pool' = IF pool.stop_all
               THEN [pool EXCEPT !.handles[u] = Handle("thrown", 0)]
               ELSE [pool EXCEPT !.tasks = Append(@, u),
                                 !.handles[u] = Handle("pending", 0),
                                 !.notify = @ \cup {u},
                                 !.submitted = Append(@, u)]
    /\ UNCHANGED store_vars

\* notify_one that wakes nobody
enqueue_Notify_NoWake(u) ==
    /\ u \in pool.notify
    /\ pool' = [pool EXCEPT !.notify = @ \ {u}]
    /\ UNCHANGED store_vars

\* ThreadPool::enqueue, condition.notify_one() after the lock is released:
\* one of the workers blocked in wait, if there is one, is woken
enqueue_Notify(u) ==
    /\ u \in pool.notify
    /\ IF Waiting = {}
       THEN pool' = [pool EXCEPT !.notify = @ \ {u}]
       ELSE \E w \in Waiting :
               pool' = [pool EXCEPT !.notify = @ \ {u}, !.workers[w].pc = "start"]
    /\ UNCHANGED store_vars

\* a worker loop that pops the task pushed last
Worker_Take_Back(w) ==
    /\ pool.state = "running"
    /\ w \in DOMAIN pool.workers
    /\ pool.workers[w].pc = "start"
    /\ pool' = IF ~pool.stop_all /\ pool.tasks = <<>>
               THEN [pool EXCEPT !.workers[w].pc = "waiting"]
               ELSE IF pool.stop_all /\ pool.tasks = <<>>
               THEN [pool EXCEPT !.workers[w].pc = "exited"]
               ELSE [pool EXCEPT !.workers[w] = [pc |-> "run",
                                                 unit |-> pool.tasks[Len(pool.tasks)]],
                                 !.tasks = SubSeq(@, 1, Len(@) - 1),
                                 !.dequeued = Append(@, pool.tasks[Len(pool.tasks)])]
    /\ UNCHANGED store_vars

\* The worker loop under queue_mutex: block in wait while neither stop_all
\* nor a task is there, return when stop_all is set and the queue is empty,
\* otherwise pop the front task
Worker_Take(w) ==
    /\ pool.state = "running"
    /\ w \in DOMAIN pool.workers
    /\ pool.workers[w].pc = "start"
    /\ pool' = IF ~pool.stop_all /\ pool.tasks = <<>>
               THEN [pool EXCEPT !.workers[w].pc = "waiting"]
               ELSE IF pool.stop_all /\ pool.tasks = <<>>
               THEN [pool EXCEPT !.workers[w].pc = "exited"]
               ELSE [pool EXCEPT !.workers[w] = [pc |-> "run", unit |-> Head(pool.tasks)],
                                 !.tasks = Tail(@),
                                 !.dequeued = Append(@, Head(pool.tasks))]
    /\ UNCHANGED store_vars

\* task() outside the lock: the packaged_task runs the unit and makes its
\* future ready
Worker_Run(w) ==
    /\ w \in DOMAIN pool.workers
    /\ pool.workers[w].pc = "run"
    /\ LET u == pool.workers[w].unit
       IN  pool' = [pool EXCEPT !.handles[u] = Handle("ready", Result(u)),
                                !.runs[u] = @ + 1,
                                !.ran_on[u] = @ \cup {w},
                                !.workers[w] = [pc |-> "start", unit |-> ""]]
    /\ UNCHANGED store_vars

\* A wait that returns with no notification (a spurious wake-up): the worker
\* takes the lock and tests the predicate again
Worker_SpuriousWake(w) ==
    /\ pool.state = "running"
    /\ w \in Waiting
    /\ pool' = [pool EXCEPT !.workers[w].pc = "start"]
    /\ UNCHANGED store_vars

\* ThreadPool::~ThreadPool, stop_all = true under queue_mutex
dtor_SetStop ==
    /\ pool.state = "running"
    /\ pool.dtor = "idle"
    /\ pool' = [pool EXCEPT !.stop_all = TRUE, !.dtor = "notify"]
    /\ UNCHANGED store_vars

\* a destructor whose notification wakes no worker
dtor_NotifyAll_NoWake ==
    /\ pool.dtor = "notify"
    /\ pool' = [pool EXCEPT !.dtor = "join"]
    /\ UNCHANGED store_vars

\* ThreadPool::~ThreadPool, condition.notify_all()
dtor_NotifyAll ==
    /\ pool.dtor = "notify"
    /\ pool' = [pool EXCEPT !.dtor = "join",
                            !.workers = [w \in DOMAIN @ |->
                                           IF @[w].pc = "waiting"
                                           THEN [@[w] EXCEPT !.pc = "start"] ELSE @[w]]]
    /\ UNCHANGED store_vars

\* ThreadPool::~ThreadPool, the joins: returns once every worker has returned
dtor_Join ==
    /\ pool.dtor = "join"
    /\ \A w \in DOMAIN pool.workers : pool.workers[w].pc = "exited"
    /\ pool' = [pool EXCEPT !.dtor = "done", !.state = "destroyed"]
    /\ UNCHANGED store_vars

InitPool ==
    /\ metadata_files = <<>>
    /\ chunk_files = <<>>
    /\ reference_counts = <<>>
    /\ output_file = <<>>
    /\ write_log = <<>>
    /\ ret = Returned("none", "", "none", <<>>)
    /\ uploaded = <<>>
    /\ raced = FALSE
    /\ ncalls = 0
    /\ unparsable_metadata = {}
    /\ threads = <<>>
    /\ pool = NoPool("none")

NextPool ==
    \/ \E num_threads \in 0..PoolSize : ThreadPool_ctor(num_threads)
    \/ \E u \in Units : enqueue_Push(u)
    \/ \E u \in Units : enqueue_Notify(u)
    \/ \E w \in 1..PoolSize : Worker_Take(w)
    \/ \E w \in 1..PoolSize : Worker_Run(w)
    \/ \E w \in 1..PoolSize : Worker_SpuriousWake(w)
    \/ dtor_SetStop
    \/ dtor_NotifyAll
    \/ dtor_Join

\* The scheduler runs every thread that can take a step: each worker, each
\* submitter between its push and its notify_one, and the destructor
PoolFairness ==
    /\ \A w \in 1..PoolSize : WF_vars(Worker_Take(w)) /\ WF_vars(Worker_Run(w))
    /\ \A u \in Units : WF_vars(enqueue_Notify(u))
    /\ WF_vars(dtor_NotifyAll)
    /\ WF_vars(dtor_Join)

SpecPool == InitPool /\ [][NextPool]_vars /\ PoolFairness

-----------------------------------------------------------------------------
(* One caller: uploadFile, updateFile and deleteFile statement by statement *)

\* the caller thread of main()
Caller == "main"

\* One thing a call did to a chunk or to the record: the chunk's "cid" was
\* computed, Chunk::save returned for it ("save"), its count was incremented
\* ("increment") or decremented with the value decrement returned
\* ("decrement"), its file was removed ("remove"), the metadata file was
\* written ("metadata_save") or removed ("metadata_remove").
Event(kind, cid, value) == [kind |-> kind, cid |-> cid, value |-> value]

\* The locals of a running call: its chunks and their position in the save
\* loop, the cids of its removal pass and their position, what it did so far
Frame(call, name, type, file_size, p, to_remove, pc) ==
    [call |-> call, name |-> name, type |-> type, file_size |-> file_size,
     chunks |-> p.chunks, chunk_cids |-> p.chunk_cids, idx |-> 1,
     to_remove |-> to_remove, ridx |-> 1, last |-> 0,
     events |-> [i \in 1..Len(p.chunks) |-> Event("cid", p.chunks[i].cid, 0)],
     pc |-> pc]

Running == Caller \in DOMAIN threads

\* uploadFile up to the save loop: fs::file_size and processFileIntoChunks
uploadFile_Enter(input, original_filename, content_type) ==
    /\ ~Running
    /\ ncalls < MaxCalls
    /\ ncalls' = ncalls + 1
    /\ IF input = <<>>
       THEN Rejected("uploadFile", original_filename, "throw")
       ELSE \E p \in processFileIntoChunks(input[1]) :
              /\ threads' = (Caller :> Frame("uploadFile", original_filename, content_type,
                                             Len(input[1]), p, <<>>,
                                             IF p.chunks = <<>> THEN "metadata" ELSE "save"))
              /\ raced' = (raced \/ TornCID \in CidSet(p.chunk_cids))
              /\ uploaded' = (original_filename :> input[1]) @@ uploaded
              /\ UNCHANGED <<metadata_files, chunk_files, reference_counts, output_file,
                             write_log, ret, unparsable_metadata, pool>>

\* updateFile up to the save loop: the old record is loaded, the new input is
\* chunked, cids_to_decrement is the set difference
updateFile_Enter(original_filename, updated, new_content_type) ==
    /\ ~Running
    /\ ncalls < MaxCalls
    /\ ncalls' = ncalls + 1
    /\ IF ~MetadataExists(metadata_files, original_filename) \/ updated = <<>>
       THEN Rejected("updateFile", original_filename, "throw")
       ELSE \E p \in processFileIntoChunks(updated[1]) :
              LET old_metadata == LoadMetadata(metadata_files, original_filename)
                  to_remove == cids_to_decrement(old_metadata.chunk_cids, p.chunk_cids)
              IN  /\ threads' = (Caller :> Frame("updateFile", original_filename,
                                                 new_content_type, Len(updated[1]), p, to_remove,
                                                 IF p.chunks # <<>> THEN "save"
                                                 ELSE IF to_remove # <<>> THEN "decrement"
                                                 ELSE "metadata"))
                  /\ raced' = (raced \/ TornCID \in CidSet(p.chunk_cids))
                  /\ uploaded' = (original_filename :> updated[1]) @@ uploaded
                  /\ UNCHANGED <<metadata_files, chunk_files, reference_counts, output_file,
                                 write_log, ret, unparsable_metadata, pool>>

\* deleteFile up to the removal pass: the record is loaded
deleteFile_Enter(original_filename) ==
    /\ ~Running
    /\ ncalls < MaxCalls
    /\ ncalls' = ncalls + 1
    /\ IF ~MetadataExists(metadata_files, original_filename)
       THEN Rejected("deleteFile", original_filename, "false")
       ELSE LET metadata == LoadMetadata(metadata_files, original_filename)
                none == [chunks |-> <<>>, chunk_cids |-> <<>>]
            IN  /\ threads' = (Caller :> Frame("deleteFile", original_filename, "", 0, none,
                                               metadata.chunk_cids,
                                               IF metadata.chunk_cids = <<>>
                                               THEN "metadata" ELSE "decrement"))
                /\ UNCHANGED <<metadata_files, chunk_files, reference_counts, output_file,
                               write_log, ret, uploaded, raced, unparsable_metadata, pool>>

\* chunk.save(config) for the chunk at idx
step_save ==
    /\ Running
    /\ threads[Caller].pc = "save"
    /\ LET chunk == threads[Caller].chunks[threads[Caller].idx]
           st == save(Store, chunk)
       IN  /\ chunk_files' = st.files
           /\ threads' = [threads EXCEPT
                            ![Caller].events = Append(@, Event("save", chunk.cid, 0)),
                            ![Caller].pc = "increment"]
    /\ UNCHANGED <<metadata_files, reference_counts, output_file, write_log, ret, uploaded,
                   raced, ncalls, unparsable_metadata, pool>>

\* ref_manager.increment(chunk.cid) and the step of the loop: to the next
\* chunk, to the removal pass of updateFile, or to the metadata
step_increment ==
    /\ Running
    /\ threads[Caller].pc = "increment"
    /\ LET f == threads[Caller]
           chunk == f.chunks[f.idx]
       IN  /\ reference_counts' = increment(reference_counts, chunk.cid)
           /\ threads' = [threads EXCEPT
                            ![Caller].events = Append(@, Event("increment", chunk.cid, 0)),
                            ![Caller].idx = @ + 1,
                            ![Caller].pc = IF f.idx < Len(f.chunks) THEN "save"
                                           ELSE IF f.to_remove # <<>> THEN "decrement"
                                           ELSE "metadata"]
    /\ UNCHANGED <<metadata_files, chunk_files, output_file, write_log, ret, uploaded,
                   raced, ncalls, unparsable_metadata, pool>>

\* after deleteChunkFileIfUnreferenced returned: the next cid of the pass
AfterRemoval(f) ==
    [f EXCEPT !.ridx = @ + 1,
              !.pc = IF f.ridx < Len(f.to_remove) THEN "decrement" ELSE "metadata"]

\* deleteChunkFileIfUnreferenced: ref_manager.decrement(chunk_cid) and the
\* tests of its value and of fs::exists(chunk_path)
step_decrement ==
    /\ Running
    /\ threads[Caller].pc = "decrement"
    /\ LET f == threads[Caller]
           cid == f.to_remove[f.ridx]
           d == decrement(reference_counts, cid)
           g == [f EXCEPT !.events = Append(@, Event("decrement", cid, d.value)),
                          !.last = d.value]
       IN  /\ reference_counts' = d.counts
           /\ threads' = [threads EXCEPT ![Caller] =
                             IF d.value = 0 /\ ChunkExists(chunk_files, cid)
                             THEN [g EXCEPT !.pc = "remove"]
                             ELSE AfterRemoval(g)]
    /\ UNCHANGED <<metadata_files, chunk_files, output_file, write_log, ret, uploaded,
                   raced, ncalls, unparsable_metadata, pool>>

\* a removal pass that removes the chunk file of the next cid outright
step_remove_Undecremented ==
    /\ Running
    /\ threads[Caller].pc \in {"decrement", "remove"}
    /\ LET f == threads[Caller]
           cid == f.to_remove[f.ridx]
       IN  /\ chunk_files' = RemoveChunk(chunk_files, cid)
           /\ threads' = [threads EXCEPT ![Caller] =
                             AfterRemoval([f EXCEPT !.events = Append(@, Event("remove", cid, 0))])]
    /\ UNCHANGED <<metadata_files, reference_counts, output_file, write_log, ret, uploaded,
                   raced, ncalls, unparsable_metadata, pool>>

\* deleteChunkFileIfUnreferenced: fs::remove(chunk_path)
step_remove ==
    /\ Running
    /\ threads[Caller].pc = "remove"
    /\ LET f == threads[Caller]
           cid == f.to_remove[f.ridx]
       IN  /\ chunk_files' = RemoveChunk(chunk_files, cid)
           /\ threads' = [threads EXCEPT ![Caller] =
                             AfterRemoval([f EXCEPT !.events = Append(@, Event("remove", cid, 0))])]
    /\ UNCHANGED <<metadata_files, reference_counts, output_file, write_log, ret, uploaded,
                   raced, ncalls, unparsable_metadata, pool>>

\* a call that writes its metadata file while its save loop is still running
step_metadata_Early ==
    /\ Running
    /\ threads[Caller].pc \in {"save", "increment", "metadata"}
    /\ LET f == threads[Caller]
           metadata == FileMetadata(f.name, f.file_size, f.type, f.chunk_cids)
       IN  /\ f.call \in {"uploadFile", "updateFile"}
           /\ metadata_files' = SaveMetadata(metadata_files, metadata)
           /\ ret' = Returned(f.call, f.name, "metadata", <<metadata>>)
           /\ threads' = [threads EXCEPT
                            ![Caller].events = Append(@, Event("metadata_save", 0, 0)),
                            ![Caller].pc = "return"]
    /\ UNCHANGED <<chunk_files, reference_counts, output_file, write_log, uploaded,
                   raced, ncalls, unparsable_metadata, pool>>

\* The end of the call: uploadFile and updateFile build and save the record,
\* deleteFile removes the metadata file
step_metadata ==
    /\ Running
    /\ threads[Caller].pc = "metadata"
    /\ LET f == threads[Caller]
           metadata == FileMetadata(f.name, f.file_size, f.type, f.chunk_cids)
       IN  IF f.call = "deleteFile"
           THEN /\ metadata_files' = RemoveMetadata(metadata_files, f.name)
                /\ ret' = Returned(f.call, f.name, "true", <<>>)
                /\ uploaded' = [n \in (DOMAIN uploaded) \ {f.name} |-> uploaded[n]]
                /\ threads' = [threads EXCEPT
                                 ![Caller].events = Append(@, Event("metadata_remove", 0, 0)),
                                 ![Caller].pc = "return"]
           ELSE /\ metadata_files' = SaveMetadata(metadata_files, metadata)
                /\ ret' = Returned(f.call, f.name, "metadata", <<metadata>>)
                /\ uploaded' = uploaded
                /\ threads' = [threads EXCEPT
                                 ![Caller].events = Append(@, Event("metadata_save", 0, 0)),
                                 ![Caller].pc = "return"]
    /\ UNCHANGED <<chunk_files, reference_counts, output_file, write_log,
                   raced, ncalls, unparsable_metadata, pool>>

\* the call returns to main()
step_return ==
    /\ Running
    /\ threads[Caller].pc = "return"
    /\ threads' = <<>>
    /\ UNCHANGED <<metadata_files, chunk_files, reference_counts, output_file, write_log, ret,
                   uploaded, raced, ncalls, unparsable_metadata, pool>>

NextSteps ==
    \/ \E input \in InputFiles, name \in Filenames, type \in ContentTypes :
          uploadFile_Enter(input, name, type)
    \/ \E name \in Filenames, input \in InputFiles, type \in ContentTypes :
          updateFile_Enter(name, input, type)
    \/ \E name \in Filenames : deleteFile_Enter(name)
    \/ step_save
    \/ step_increment
    \/ step_decrement
    \/ step_remove
    \/ step_metadata
    \/ step_return

SpecSteps == Init /\ [][NextSteps]_vars

-----------------------------------------------------------------------------
(* Chunk::save against concurrent savers and readers *)

\* Chunk::save, std::ofstream ofs(chunk_path, std::ios::binary): the file is
\* created, or truncated when another thread made it since the exists test,
\* and holds no byte yet
save_Open(t) ==
    /\ t \in DOMAIN threads
    /\ threads[t].pc = "write"
    /\ LET chunk == threads[t].chunks[threads[t].idx]
       IN  chunk_files' = (chunk.cid :> <<>>) @@ chunk_files
    /\ threads' = [threads EXCEPT ![t].pc = "flush"]
    /\ UNCHANGED <<pool, metadata_files, reference_counts, output_file, write_log,
                   ret, uploaded, raced, ncalls, unparsable_metadata>>

\* Chunk::save, ofs.write and ofs.close: the buffered bytes reach the file
save_Flush(t) ==
    /\ t \in DOMAIN threads
    /\ threads[t].pc = "flush"
    /\ LET chunk == threads[t].chunks[threads[t].idx]
       IN  chunk_files' = (chunk.cid :> chunk.data) @@ chunk_files
    /\ threads' = [threads EXCEPT ![t].pc = "increment"]
    /\ UNCHANGED <<pool, metadata_files, reference_counts, output_file, write_log,
                   ret, uploaded, raced, ncalls, unparsable_metadata>>

NextSaveRace ==
    \/ \E t \in Threads, input \in InputFiles, name \in Filenames, type \in ContentTypes :
          upload_Begin(t, input, name, type)
    \/ \E t \in Threads : save_Exists(t)
    \/ \E t \in Threads : save_Open(t)
    \/ \E t \in Threads : save_Flush(t)
    \/ \E t \in Threads : upload_Increment(t)
    \/ \E t \in Threads : upload_SaveMetadata(t)
    \/ \E name \in Filenames : retrieveFile(name)

SpecSaveRace == Init /\ [][NextSaveRace]_vars

-----------------------------------------------------------------------------
(* ChunkReferenceManager under concurrent callers *)

\* longest program of registry calls one thread runs
MaxOps == 2
RegCids == {1, 2}
RegCalls == [op : {"increment", "decrement", "getCount"}, cid : RegCids]
Programs == UNION {[1..n -> RegCalls] : n \in 1..MaxOps}

\* the thread inside a registry call, between its lock_guard and its return
Holders == {t \in DOMAIN threads : threads[t].pc \in {"find", "apply"}}

\* Thread t is handed a sequence of registry calls
reg_Begin(t, ops) ==
    /\ t \notin DOMAIN threads
    /\ threads' = (t :> [ops |-> ops, i |-> 1, pc |-> "idle", found |-> <<>>,
                         rets |-> <<>>, on_zero |-> FALSE]) @@ threads
    /\ UNCHANGED <<pool, metadata_files, chunk_files, reference_counts, output_file, write_log,
                   ret, uploaded, raced, ncalls, unparsable_metadata>>

\* a registry call that does not take the mutex
reg_Lock_NoMutex(t) ==
    /\ t \in DOMAIN threads
    /\ threads[t].pc = "idle"
    /\ threads' = [threads EXCEPT ![t].pc = "find"]
    /\ UNCHANGED <<pool, metadata_files, chunk_files, reference_counts, output_file, write_log,
                   ret, uploaded, raced, ncalls, unparsable_metadata>>

\* std::lock_guard<std::mutex> lock(mtx) at the head of increment, decrement
\* and getCount: taken when no other thread holds it
reg_Lock(t) ==
    /\ t \in DOMAIN threads
    /\ threads[t].pc = "idle"
    /\ Holders = {}
    /\ threads' = [threads EXCEPT ![t].pc = "find"]
    /\ UNCHANGED <<pool, metadata_files, chunk_files, reference_counts, output_file, write_log,
                   ret, uploaded, raced, ncalls, unparsable_metadata>>

\* the lookup of the entry: reference_counts.find(chunk_cid), or the read
\* half of reference_counts[chunk_cid]++
reg_Find(t) ==
    /\ t \in DOMAIN threads
    /\ threads[t].pc = "find"
    /\ LET cid == threads[t].ops[threads[t].i].cid
       IN  threads' = [threads EXCEPT
                          ![t].found = IF cid \in DOMAIN reference_counts
                                       THEN <<reference_counts[cid]>> ELSE <<>>,
                          ![t].pc = "apply"]
    /\ UNCHANGED <<pool, metadata_files, chunk_files, reference_counts, output_file, write_log,
                   ret, uploaded, raced, ncalls, unparsable_metadata>>

\* the rest of the call on the entry found: the write of the new count, the
\* returned value (0 stands for the void of increment), and the release of
\* the mutex at the return
reg_Apply(t) ==
    /\ t \in DOMAIN threads
    /\ threads[t].pc = "apply"
    /\ LET f == threads[t]
           call == f.ops[f.i]
           n == IF f.found = <<>> THEN 0 ELSE f.found[1]
           skip == call.op = "decrement" /\ (f.found = <<>> \/ n <= 0)
           value == IF call.op = "increment" \/ skip THEN 0
                    ELSE IF call.op = "decrement" THEN n - 1 ELSE n
       IN  /\ reference_counts' =
                 IF call.op = "increment" THEN (call.cid :> (n + 1)) @@ reference_counts
                 ELSE IF call.op = "decrement" /\ ~skip
                      THEN (call.cid :> (n - 1)) @@ reference_counts
                 ELSE reference_counts
           /\ threads' = [threads EXCEPT
                            ![t].rets = Append(@, value),
                            ![t].on_zero = @ \/ skip,
                            ![t].i = @ + 1,
                            ![t].pc = IF f.i < Len(f.ops) THEN "idle" ELSE "done"]
    /\ UNCHANGED <<pool, metadata_files, chunk_files, output_file, write_log,
                   ret, uploaded, raced, ncalls, unparsable_metadata>>

NextRegistry ==
    \/ \E t \in Threads, ops \in Programs : reg_Begin(t, ops)
    \/ \E t \in Threads : reg_Lock(t)
    \/ \E t \in Threads : reg_Find(t)
    \/ \E t \in Threads : reg_Apply(t)

SpecRegistry == Init /\ [][NextRegistry]_vars

-----------------------------------------------------------------------------
(* deleteFile against a concurrent uploadFile *)

\* Thread t enters deleteFile for a filename no other thread works on: the
\* record is loaded, or the load throws and the call returns false
delete_Begin(t, original_filename) ==
    /\ t \notin DOMAIN threads
    /\ original_filename \notin NamesOfOthers(t)
    /\ ncalls' = ncalls + 1
    /\ IF ~MetadataExists(metadata_files, original_filename)
       THEN Rejected("deleteFile", original_filename, "false")
       ELSE LET metadata == LoadMetadata(metadata_files, original_filename)
            IN  /\ threads' = (t :> [name |-> original_filename, type |-> "", input |-> <<>>,
                                     file_size |-> 0, chunks |-> <<>>,
                                     chunk_cids |-> metadata.chunk_cids, idx |-> 1,
                                     pc |-> IF metadata.chunk_cids = <<>>
                                            THEN "remove_metadata" ELSE "decrement"])
                              @@ threads
                /\ UNCHANGED <<pool, metadata_files, chunk_files, reference_counts, output_file,
                               write_log, ret, uploaded, raced, unparsable_metadata>>

\* after deleteChunkFileIfUnreferenced returned: the next cid of the record
delete_Advance(f) ==
    [f EXCEPT !.idx = @ + 1,
              !.pc = IF f.idx < Len(f.chunk_cids) THEN "decrement" ELSE "remove_metadata"]

\* deleteChunkFileIfUnreferenced, ref_manager.decrement(chunk_cid) under the
\* registry's mutex and the test of the returned value
delete_Decrement(t) ==
    /\ t \in DOMAIN threads
    /\ threads[t].pc = "decrement"
    /\ LET d == decrement(reference_counts, threads[t].chunk_cids[threads[t].idx])
       IN  /\ reference_counts' = d.counts
           /\ threads' = [threads EXCEPT ![t] = IF d.value = 0
                                                THEN [@ EXCEPT !.pc = "remove"]
                                                ELSE delete_Advance(@)]
    /\ UNCHANGED <<pool, metadata_files, chunk_files, output_file, write_log,
                   ret, uploaded, raced, ncalls, unparsable_metadata>>

\* deleteChunkFileIfUnreferenced, fs::exists(chunk_path) and fs::remove
delete_Remove(t) ==
    /\ t \in DOMAIN threads
    /\ threads[t].pc = "remove"
    /\ LET cid == threads[t].chunk_cids[threads[t].idx]
       IN  chunk_files' = IF ChunkExists(chunk_files, cid)
                          THEN RemoveChunk(chunk_files, cid) ELSE chunk_files
    /\ threads' = [threads EXCEPT ![t] = delete_Advance(@)]
    /\ UNCHANGED <<pool, metadata_files, reference_counts, output_file, write_log,
                   ret, uploaded, raced, ncalls, unparsable_metadata>>

\* deleteFile, the removal of the metadata file and the return of true
delete_RemoveMetadata(t) ==
    /\ t \in DOMAIN threads
    /\ threads[t].pc = "remove_metadata"
    /\ metadata_files' = RemoveMetadata(metadata_files, threads[t].name)
    /\ ret' = Returned("deleteFile", threads[t].name, "true", <<>>)
    /\ uploaded' = [n \in (DOMAIN uploaded) \ {threads[t].name} |-> uploaded[n]]
    /\ threads' = [threads EXCEPT ![t].pc = "done"]
    /\ UNCHANGED <<pool, chunk_files, reference_counts, output_file, write_log, raced, ncalls,
                   unparsable_metadata>>

\* The thread's call has returned; the thread can make another call
thread_Return(t) ==
    /\ t \in DOMAIN threads
    /\ threads[t].pc = "done"
    /\ threads' = [u \in (DOMAIN threads) \ {t} |-> threads[u]]
    /\ UNCHANGED <<pool, metadata_files, chunk_files, reference_counts, output_file, write_log,
                   ret, uploaded, raced, ncalls, unparsable_metadata>>

NextDeleteRace ==
    \/ \E t \in Threads, input \in InputFiles, name \in Filenames, type \in ContentTypes :
          ncalls < MaxCalls /\ upload_Begin(t, input, name, type)
    \/ \E t \in Threads : save_Exists(t)
    \/ \E t \in Threads : save_Write(t)
    \/ \E t \in Threads : upload_Increment(t)
    \/ \E t \in Threads : upload_SaveMetadata(t)
    \/ \E t \in Threads, name \in Filenames : ncalls < MaxCalls /\ delete_Begin(t, name)
    \/ \E t \in Threads : delete_Decrement(t)
    \/ \E t \in Threads : delete_Remove(t)
    \/ \E t \in Threads : delete_RemoveMetadata(t)
    \/ \E t \in Threads : thread_Return(t)

SpecDeleteRace == Init /\ [][NextDeleteRace]_vars

-----------------------------------------------------------------------------
(* Vocabulary of the claims *)

\* chunk_cids of the stored record of a filename
StoredCids(mfiles, filename) == LoadMetadata(mfiles, filename).chunk_cids

\* every CID a registry entry, a chunk file or a stored record names
KnownCids(mfiles, files, counts) ==
    DOMAIN counts \cup DOMAIN files
    \cup UNION {CidSet(StoredCids(mfiles, f)) : f \in DOMAIN mfiles}

\* the stored files whose record lists cid
Referencing(mfiles, cid) ==
    {f \in DOMAIN mfiles : cid \in CidSet(StoredCids(mfiles, f))}

\* number of positions of a CID list that hold cid
Occurrences(cids, cid) == Cardinality({i \in 1..Len(cids) : cids[i] = cid})

\* the CIDs of the chunks of a content, in stream order
ChunkCidsOf(bytes) == [i \in 1..Len(ReadChunks(bytes)) |-> ReadChunks(bytes)[i].cid]

-----------------------------------------------------------------------------
(* C1 - update accounting *)

\* no position of the list repeats a CID of an earlier position
NoRepeat(cids) == Cardinality(CidSet(cids)) = Len(cids)

\* C1: a successful update changes the count of every CID by exactly the
\* change of its membership in this file's chunk list: 0 when the CID is in
\* the old and in the new list, +1 when only in the new, -1 when only in the
\* old.  Stated for the updates in which every handle yielded its chunk's CID
\* and neither list repeats a CID.
C1_UpdateAccounting ==
    [][\A name \in Filenames, input \in InputFiles, type \in ContentTypes :
          (/\ updateFile(name, input, type)
           /\ ret'.kind = "metadata"
           /\ ~raced'
           /\ NoRepeat(StoredCids(metadata_files, name))
           /\ NoRepeat(StoredCids(metadata_files', name))) =>
             LET old == CidSet(StoredCids(metadata_files, name))
                 new == CidSet(StoredCids(metadata_files', name))
             IN  \A cid \in old \cup new \cup DOMAIN reference_counts' :
                    getCount(reference_counts', cid) - getCount(reference_counts, cid)
                    = (IF cid \in new THEN 1 ELSE 0) - (IF cid \in old THEN 1 ELSE 0)
      ]_vars

-----------------------------------------------------------------------------
(* C2 - counts equal the number of referencing records *)

\* C2: between calls, the count of every CID equals the number of stored
\* metadata records whose chunk_cids contain it.  Stated for the runs in
\* which every handle yielded its chunk's CID.
C2_CountIsReferencingRecords ==
    ~raced =>
       \A cid \in KnownCids(metadata_files, chunk_files, reference_counts) :
           getCount(reference_counts, cid) = Cardinality(Referencing(metadata_files, cid))

-----------------------------------------------------------------------------
(* C3 - round trip *)

\* C3: uploading any readable input under a filename and then retrieving
\* that filename succeeds and writes an output equal to the input.
C3_RoundTrip ==
    [][\A input \in InputFiles, name \in Filenames, type \in ContentTypes :
          (uploadFile(input, name, type) /\ input # <<>>) =>
             RetrieveResult(metadata_files', chunk_files', output_file', name)
             = [ok |-> TRUE, output |-> input]
      ]_vars

-----------------------------------------------------------------------------
(* C4 - reference-counted collection *)

\* C4: a delete leaves on disk every chunk of the file that another stored
\* file still lists, lowering its count by one (to 1 when one such file is
\* left), and brings to 0 and removes from disk every chunk that no other
\* stored file lists.  Stated for the runs in which every handle yielded its
\* chunk's CID.
C4_CountedCollection ==
    [][\A name \in Filenames :
          (deleteFile(name) /\ ret'.kind = "true" /\ ~raced) =>
             \A cid \in CidSet(StoredCids(metadata_files, name)) :
                LET others == Referencing(metadata_files, cid) \ {name}
                IN  IF others # {}
                    THEN /\ ChunkExists(chunk_files', cid)
                         /\ getCount(reference_counts', cid)
                            = getCount(reference_counts, cid) - 1
                         /\ Cardinality(others) = 1 => getCount(reference_counts', cid) = 1
                    ELSE /\ getCount(reference_counts', cid) = 0
                         /\ ~ChunkExists(chunk_files', cid)
      ]_vars

-----------------------------------------------------------------------------
(* C5 - garbage collection reclaims everything *)

\* C5: whenever every file has been deleted, no chunk file is left on disk
\* and every reference count is 0.  Stated for the runs in which every handle
\* yielded its chunk's CID.
C5_AllReclaimed ==
    (~raced /\ DOMAIN metadata_files = {}) =>
       /\ DOMAIN chunk_files = {}
       /\ \A cid \in DOMAIN reference_counts : reference_counts[cid] = 0

-----------------------------------------------------------------------------
(* C6 - metadata never outlives its chunks *)

\* C6: between calls, every CID listed in a stored metadata record has its
\* chunk file on disk, and retrieve of every stored filename succeeds.
C6_ChunksOfStoredFilesPresent ==
    \A f \in DOMAIN metadata_files :
       /\ \A cid \in CidSet(StoredCids(metadata_files, f)) : ChunkExists(chunk_files, cid)
       /\ RetrieveResult(metadata_files, chunk_files, output_file, f).ok

-----------------------------------------------------------------------------
(* C7 - deduplicated storage *)

\* C7: a call writes a chunk file only where none existed and writes it once,
\* the bytes of a chunk file that stays are never changed, two stored files
\* of byte-identical content have identical chunk_cids lists, and after two
\* uploads of one content into the empty store the chunk directory holds
\* exactly one file per distinct CID of that content.
C7_DeduplicatedStorage ==
    [][/\ \A i \in 1..Len(write_log') :
             /\ ~ChunkExists(chunk_files, write_log'[i])
             /\ Occurrences(write_log', write_log'[i]) = 1
       /\ \A cid \in DOMAIN chunk_files \cap DOMAIN chunk_files' :
             chunk_files'[cid] = chunk_files[cid]
       /\ \A f, g \in DOMAIN metadata_files' :
             uploaded'[f] = uploaded'[g] =>
                StoredCids(metadata_files', f) = StoredCids(metadata_files', g)
       /\ \A f, g \in DOMAIN metadata_files' :
             (ncalls' = 2 /\ f # g /\ uploaded'[f] = uploaded'[g]) =>
                DOMAIN chunk_files' = CidSet(ChunkCidsOf(uploaded'[f]))
      ]_vars

-----------------------------------------------------------------------------
(* C8 - deduplication never affects reference accounting *)

\* C8: an upload raises the count of every CID among its chunks, also when
\* the chunk file already exists, and after two uploads of one content under
\* two filenames into the empty store the count of each of its CIDs is 2.
\* Stated for the runs in which every handle yielded its chunk's CID.
C8_SharedCountIsTwo ==
    [][/\ \A input \in InputFiles, name \in Filenames, type \in ContentTypes :
             (uploadFile(input, name, type) /\ input # <<>>) =>
                \A cid \in CidSet(ChunkCidsOf(input[1])) :
                   getCount(reference_counts', cid) > getCount(reference_counts, cid)
       /\ \A f, g \in DOMAIN metadata_files' :
             (ncalls' = 2 /\ ~raced' /\ f # g /\ uploaded'[f] = uploaded'[g]) =>
                \A cid \in CidSet(ChunkCidsOf(uploaded'[f])) :
                   getCount(reference_counts', cid) = 2
      ]_vars

-----------------------------------------------------------------------------
(* C9 - chunking *)

\* ceil(n / CHUNK_SIZE)
ChunkCount(n) == (n + CHUNK_SIZE - 1) \div CHUNK_SIZE

\* the byte length the claim gives chunk i of an input of n bytes
ChunkLength(n, i) ==
    IF i < ChunkCount(n) \/ n % CHUNK_SIZE = 0 THEN CHUNK_SIZE ELSE n % CHUNK_SIZE

\* C9: the CID list returned for an input of n bytes has ceil(n / CHUNK_SIZE)
\* entries, and entry i is the CID of the i-th piece of the stream, the
\* pieces having CHUNK_SIZE bytes each except that the last has
\* n mod CHUNK_SIZE bytes when that is not zero.
C9_Chunking ==
    ret.kind = "metadata" =>
       LET bytes == uploaded[ret.name]
           n == Len(bytes)
           cids == ret.metadata[1].chunk_cids
       IN  /\ Len(cids) = ChunkCount(n)
           /\ \A i \in 1..Len(cids) :
                 cids[i] = generateSHA256(SubSeq(bytes, (i - 1) * CHUNK_SIZE + 1,
                                                 (i - 1) * CHUNK_SIZE + ChunkLength(n, i)))

-----------------------------------------------------------------------------
(* C10 - empty file *)

\* C10: uploading a zero-length input succeeds, stores a record with an empty
\* chunk_cids list and file_size_bytes 0, writes no chunk file and changes no
\* reference count; retrieving a filename stored from a zero-length input
\* succeeds and leaves a zero-length output.
C10_EmptyFile ==
    [][/\ \A name \in Filenames, type \in ContentTypes :
             uploadFile(<< <<>> >>, name, type) =>
                /\ ret'.kind = "metadata"
                /\ MetadataExists(metadata_files', name)
                /\ StoredCids(metadata_files', name) = <<>>
                /\ LoadMetadata(metadata_files', name).file_size_bytes = 0
                /\ chunk_files' = chunk_files
                /\ write_log' = <<>>
                /\ reference_counts' = reference_counts
                /\ RetrieveResult(metadata_files', chunk_files', output_file', name)
                   = [ok |-> TRUE, output |-> << <<>> >>]
       /\ \A name \in DOMAIN uploaded :
             (retrieveFile(name) /\ uploaded[name] = <<>>) =>
                /\ ret'.kind = "true"
                /\ output_file' = << <<>> >>
      ]_vars

\* C10 witness: a retrieve of a file stored from a zero-length input has
\* returned true and left a zero-length output.
C10_Witness ==
    /\ ret.call = "retrieveFile"
    /\ ret.kind = "true"
    /\ ret.name \in DOMAIN uploaded
    /\ uploaded[ret.name] = <<>>
    /\ MetadataExists(metadata_files, ret.name)
    /\ LoadMetadata(metadata_files, ret.name).file_size_bytes = 0
    /\ output_file = << <<>> >>

-----------------------------------------------------------------------------
(* C11 - file_size_bytes is the sum of the chunk lengths *)

\* total byte length of the chunk files a CID list names, one term per
\* position; a CID that names no chunk file contributes no bytes
RECURSIVE SumOfChunkLengths(_, _)
SumOfChunkLengths(files, cids) ==
    IF cids = <<>>
    THEN 0
    ELSE (IF ChunkExists(files, Head(cids)) THEN Len(files[Head(cids)]) ELSE 0)
         + SumOfChunkLengths(files, Tail(cids))

\* C11: between calls, file_size_bytes of every stored metadata record equals
\* the sum of the byte lengths of the chunks its chunk_cids lists, a repeated
\* CID counted once per occurrence.
C11_SizeIsSumOfChunks ==
    \A f \in DOMAIN metadata_files :
       LET m == LoadMetadata(metadata_files, f)
       IN  m.file_size_bytes = SumOfChunkLengths(chunk_files, m.chunk_cids)

-----------------------------------------------------------------------------
(* C12 - a failed upload publishes nothing *)

\* Across the step, the first k chunks of bytes are saved and counted and
\* nothing else of the chunk store or the registry has changed.
\* (A chunk file that a failed write left is the one change k does not cover.)
FirstChunksInPlace(bytes, k) ==
    LET cids == SubSeq(ChunkCidsOf(bytes), 1, k)
    IN  /\ \A cid \in DOMAIN chunk_files :
              ChunkExists(chunk_files', cid) /\ chunk_files'[cid] = chunk_files[cid]
        /\ \A i \in 1..k : ChunkExists(chunk_files', cids[i])
        /\ \A cid \in AllCids \cup DOMAIN reference_counts \cup DOMAIN reference_counts' :
              getCount(reference_counts', cid)
              = getCount(reference_counts, cid) + Occurrences(cids, cid)

\* C12 as stated: an upload that throws (the input is unreadable, the save of
\* chunk n throws, or the metadata save throws) leaves every stored metadata
\* record as it was and writes none, the chunks saved and the counts raised
\* before the failure stay, and an upload that stores its record has saved
\* and counted every chunk.
C12_FailedUploadLeavesRecords ==
    [][\A input \in InputFiles, name \in Filenames, type \in ContentTypes :
          /\ \A n \in 1..MaxLen :
                uploadFile_SaveThrows(input, name, type, n) =>
                   /\ metadata_files' = metadata_files
                   /\ unparsable_metadata' = unparsable_metadata
                   /\ FirstChunksInPlace(input[1], n - 1)
          /\ uploadFile_MetadataSaveThrows(input, name, type) =>
                /\ metadata_files' = metadata_files
                /\ FirstChunksInPlace(input[1], Len(ReadChunks(input[1])))
          /\ (uploadFile(input, name, type) /\ ret'.kind = "throw") =>
                UNCHANGED <<metadata_files, unparsable_metadata, chunk_files, reference_counts>>
          /\ (uploadFile(input, name, type) /\ ret'.kind = "metadata") =>
                FirstChunksInPlace(input[1], Len(ReadChunks(input[1])))
      ]_vars

\* C12 amended: as C12_FailedUploadLeavesRecords, except that when the
\* metadata save itself throws, the record stored before under that filename
\* is either as it was or no longer loadable (the file was truncated by the
\* open); no record of the failed upload is loadable and every other record
\* is as it was.
C12_FailedUploadPublishesNothing ==
    [][\A input \in InputFiles, name \in Filenames, type \in ContentTypes :
          /\ \A n \in 1..MaxLen :
                uploadFile_SaveThrows(input, name, type, n) =>
                   /\ metadata_files' = metadata_files
                   /\ unparsable_metadata' = unparsable_metadata
                   /\ FirstChunksInPlace(input[1], n - 1)
          /\ uploadFile_MetadataSaveThrows(input, name, type) =>
                /\ \/ metadata_files' = metadata_files
                   \/ metadata_files' = RemoveMetadata(metadata_files, name)
                /\ FirstChunksInPlace(input[1], Len(ReadChunks(input[1])))
          /\ (uploadFile(input, name, type) /\ ret'.kind = "throw") =>
                UNCHANGED <<metadata_files, unparsable_metadata, chunk_files, reference_counts>>
          /\ (uploadFile(input, name, type) /\ ret'.kind = "metadata") =>
                FirstChunksInPlace(input[1], Len(ReadChunks(input[1])))
      ]_vars

\* C12 witness: an upload under the filename of a stored empty file has
\* thrown after it wrote a chunk file; the record of the empty file is still
\* there and a chunk is counted.
C12_Witness ==
    /\ ret.call = "uploadFile"
    /\ ret.kind = "throw"
    /\ write_log # <<>>
    /\ MetadataExists(metadata_files, ret.name)
    /\ uploaded[ret.name] = <<>>
    /\ \E cid \in DOMAIN reference_counts : reference_counts[cid] > 0

-----------------------------------------------------------------------------
(* C13 - retrieve is all-or-nothing on the output *)

\* the bytes of the chunk files a CID list names, in list order
RECURSIVE ConcatChunks(_, _)
ConcatChunks(files, cids) ==
    IF cids = <<>> THEN <<>> ELSE files[Head(cids)] \o ConcatChunks(files, Tail(cids))

\* every CID of the stored record of a filename has its chunk file
AllChunksPresent(mfiles, files, filename) ==
    \A cid \in CidSet(StoredCids(mfiles, filename)) : ChunkExists(files, cid)

\* C13: a retrieve returns true only with the output holding the bytes of
\* every chunk of the record in chunk_cids order; when the metadata is
\* missing, a chunk is missing or the output cannot be written it returns
\* false and nothing is left at the output path.
C13_RetrieveAllOrNothing ==
    [][\A name \in Filenames :
          /\ retrieveFile(name) =>
                IF MetadataExists(metadata_files, name)
                   /\ AllChunksPresent(metadata_files, chunk_files, name)
                THEN /\ ret'.kind = "true"
                     /\ output_file'
                        = <<ConcatChunks(chunk_files, StoredCids(metadata_files, name))>>
                ELSE /\ ret'.kind = "false"
                     /\ output_file' = <<>>
          /\ retrieveFile_OutputThrows(name) =>
                /\ ret'.kind = "false"
                /\ output_file' = <<>>
      ]_vars

\* C13 witness: a retrieve of a stored file of two chunks, both on disk, has
\* returned false (a write to the output failed) and the output path is empty.
C13_Witness ==
    /\ ret.call = "retrieveFile"
    /\ ret.kind = "false"
    /\ MetadataExists(metadata_files, ret.name)
    /\ Len(StoredCids(metadata_files, ret.name)) = 2
    /\ AllChunksPresent(metadata_files, chunk_files, ret.name)
    /\ output_file = <<>>

-----------------------------------------------------------------------------
(* C14 - delete removes the record and survives chunk-removal failures *)

\* C14: a delete that returns true has removed the metadata record, so that
\* a retrieve or delete of that filename made next returns false and an
\* update of it throws; a delete in which the removal of chunk files fails
\* still returns true, removes the record, and has decremented every CID of
\* the record and removed every other unreferenced chunk file exactly as the
\* pass without the failure does.
C14_DeleteRemovesRecord ==
    [][\A name \in Filenames :
          /\ (deleteFile(name) /\ ret'.kind = "true") =>
                /\ ~MetadataExists(metadata_files', name)
                /\ ~RetrieveResult(metadata_files', chunk_files', output_file', name).ok
          /\ \A failing \in SUBSET AllCids :
                deleteFile_RemoveThrows(name, failing) =>
                   LET pass == DeletePass(Store, StoredCids(metadata_files, name))
                   IN  /\ ret'.kind = "true"
                       /\ ~MetadataExists(metadata_files', name)
                       /\ ~RetrieveResult(metadata_files', chunk_files', output_file', name).ok
                       /\ reference_counts' = pass.counts
                       /\ DOMAIN chunk_files' = DOMAIN pass.files \cup failing
                       /\ \A f \in DOMAIN metadata_files \ {name} :
                             MetadataExists(metadata_files', f)
          /\ (ret.call = "deleteFile" /\ ret.kind = "true" /\ name = ret.name) =>
                /\ retrieveFile(name) => ret'.kind = "false"
                /\ deleteFile(name) => ret'.kind = "false"
                /\ \A failing \in SUBSET AllCids : ~deleteFile_RemoveThrows(name, failing)
                /\ \A input \in InputFiles, type \in ContentTypes :
                      updateFile(name, input, type) => ret'.kind = "throw"
      ]_vars

\* C14 witness: a delete has returned true and removed the record although
\* an intact chunk file whose count it brought to 0 is still on disk.
C14_Witness ==
    /\ ret.call = "deleteFile"
    /\ ret.kind = "true"
    /\ ~MetadataExists(metadata_files, ret.name)
    /\ \E cid \in DOMAIN chunk_files :
          /\ generateSHA256(chunk_files[cid]) = cid
          /\ cid \in DOMAIN reference_counts
          /\ reference_counts[cid] = 0

-----------------------------------------------------------------------------
(* C15 - delete of a filename that is not stored *)

\* C15: a delete of a filename with no metadata record returns false and
\* leaves every reference count, every chunk file and every metadata record
\* as it was.
C15_DeleteNotFound ==
    [][\A name \in Filenames :
          (deleteFile(name) /\ ~MetadataExists(metadata_files, name)) =>
             /\ ret'.kind = "false"
             /\ UNCHANGED <<reference_counts, chunk_files, metadata_files, unparsable_metadata>>
      ]_vars

\* C15 witness: a delete of a filename that is not stored has returned false
\* while another file, its chunks and their counts are stored.
C15_Witness ==
    /\ ret.call = "deleteFile"
    /\ ret.kind = "false"
    /\ ~MetadataExists(metadata_files, ret.name)
    /\ \E f \in DOMAIN metadata_files :
          /\ StoredCids(metadata_files, f) # <<>>
          /\ \A cid \in CidSet(StoredCids(metadata_files, f)) :
                ChunkExists(chunk_files, cid) /\ getCount(reference_counts, cid) > 0

-----------------------------------------------------------------------------
(* C16 - update requires a stored file *)

\* C16: an update of a filename with no metadata record throws, stores no
\* record for it, and leaves every reference count and every chunk file as
\* it was, whatever the new input is.
C16_UpdateNotFound ==
    [][\A name \in Filenames, input \in InputFiles, type \in ContentTypes :
          (updateFile(name, input, type) /\ ~MetadataExists(metadata_files, name)) =>
             /\ ret'.kind = "throw"
             /\ ~MetadataExists(metadata_files', name)
             /\ write_log' = <<>>
             /\ UNCHANGED <<reference_counts, chunk_files, metadata_files, unparsable_metadata>>
      ]_vars

\* C16 witness: an update of a filename that is not stored has thrown while
\* another file, its chunks and their counts are stored.
C16_Witness ==
    /\ ret.call = "updateFile"
    /\ ret.kind = "throw"
    /\ ~MetadataExists(metadata_files, ret.name)
    /\ \E f \in DOMAIN metadata_files :
          /\ StoredCids(metadata_files, f) # <<>>
          /\ \A cid \in CidSet(StoredCids(metadata_files, f)) :
                ChunkExists(chunk_files, cid) /\ getCount(reference_counts, cid) > 0

-----------------------------------------------------------------------------
(* C17 - update replaces the record *)

\* C17: after an update that returns a record, the stored record of the
\* filename is the returned record, it has the CID list of the new input's
\* chunks in order, the new input's size and the new content type, and a
\* retrieve of the filename succeeds with exactly the new input's bytes.
C17_UpdateReplacesRecord ==
    [][\A name \in Filenames, input \in InputFiles, type \in ContentTypes :
          (updateFile(name, input, type) /\ ret'.kind = "metadata") =>
             LET m == ret'.metadata[1]
             IN  /\ LoadMetadata(metadata_files', name) = m
                 /\ m.original_filename = name
                 /\ m.chunk_cids = ChunkCidsOf(input[1])
                 /\ m.file_size_bytes = Len(input[1])
                 /\ m.content_type = type
                 /\ RetrieveResult(metadata_files', chunk_files', output_file', name)
                    = [ok |-> TRUE, output |-> input]
      ]_vars

-----------------------------------------------------------------------------
(* C18 - registry operations *)

\* C18: in every reachable state of the registry, and for every CID, stored
\* or not: the count is >= 0 and getCount returns the entry, 0 when there is
\* none; increment raises the count of that CID by one and changes no other;
\* decrement of an absent or zero count returns 0 and changes nothing, and
\* otherwise lowers the count of that CID by one, changes no other and
\* returns the new count.
C18_RegistryOperations ==
    LET cids == AllCids \cup {TornCID} \cup DOMAIN reference_counts
    IN  \A cid \in cids :
           LET before == getCount(reference_counts, cid)
               inc == increment(reference_counts, cid)
               dec == decrement(reference_counts, cid)
           IN  /\ before >= 0
               /\ before = IF cid \in DOMAIN reference_counts
                           THEN reference_counts[cid] ELSE 0
               /\ getCount(inc, cid) = before + 1
               /\ \A other \in cids \ {cid} :
                     getCount(inc, other) = getCount(reference_counts, other)
               /\ IF before = 0
                  THEN dec = [counts |-> reference_counts, value |-> 0]
                  ELSE /\ dec.value = before - 1
                       /\ getCount(dec.counts, cid) = before - 1
                       /\ \A other \in cids \ {cid} :
                             getCount(dec.counts, other) = getCount(reference_counts, other)

\* C18 witness: the registry holds an entry that deletes brought back to 0
\* and an entry above 1, and has no entry for some CID.
C18_Witness ==
    /\ \E cid \in DOMAIN reference_counts : reference_counts[cid] = 0
    /\ \E cid \in DOMAIN reference_counts : reference_counts[cid] > 1
    /\ \E cid \in AllCids \cup {TornCID} : cid \notin DOMAIN reference_counts

-----------------------------------------------------------------------------
(* C19 - concurrent uploads of distinct filenames *)

\* the CIDs of the chunks a thread read from its input, in stream order
OwnCids(t) == [i \in 1..Len(threads[t].chunks) |-> threads[t].chunks[i].cid]

\* number of chunk occurrences of cid over the inputs of the threads in ts
RECURSIVE BatchOccurrences(_, _)
BatchOccurrences(ts, cid) ==
    IF ts = {} THEN 0
    ELSE LET t == CHOOSE u \in ts : TRUE
         IN  Occurrences(OwnCids(t), cid) + BatchOccurrences(ts \ {t}, cid)

\* C19: when every thread of the batch has returned from its upload, the
\* stored record of each filename lists exactly the CIDs of its own input's
\* chunks in order, with its size and content type, and the count of every
\* CID is the number of chunk occurrences over the whole batch.
C19_ConcurrentUploads ==
    (DOMAIN threads = Threads /\ \A t \in Threads : threads[t].pc = "done") =>
       /\ \A t \in Threads :
             /\ MetadataExists(metadata_files, threads[t].name)
             /\ LoadMetadata(metadata_files, threads[t].name)
                = FileMetadata(threads[t].name, threads[t].file_size,
                               threads[t].type, OwnCids(t))
       /\ \A cid \in AllCids \cup DOMAIN reference_counts :
             getCount(reference_counts, cid) = BatchOccurrences(Threads, cid)

-----------------------------------------------------------------------------
(* C20 - loss of the counts at restart *)

\* C20: a delete or update of one file, also one made after a restart has
\* emptied the registry, removes no chunk file that the record of another
\* stored file lists, and every other stored file that was retrievable
\* before the call is retrievable after it.
C20_RestartHarmless ==
    [][\A name \in Filenames :
          (\/ deleteFile(name)
           \/ \E input \in InputFiles, type \in ContentTypes : updateFile(name, input, type)) =>
             \A other \in DOMAIN metadata_files' \ {name} :
                /\ \A cid \in CidSet(StoredCids(metadata_files', other)) :
                      ChunkExists(chunk_files, cid) => ChunkExists(chunk_files', cid)
                /\ RetrieveResult(metadata_files, chunk_files, output_file, other).ok
                   => RetrieveResult(metadata_files', chunk_files', output_file', other).ok
      ]_vars

-----------------------------------------------------------------------------
(* Claims about the thread pool *)

\* the units some worker has popped and not yet finished
InFlight == {pool.workers[w].unit : w \in {v \in DOMAIN pool.workers : pool.workers[v].pc = "run"}}

QueuedUnits == {pool.tasks[i] : i \in 1..Len(pool.tasks)}

\* C21: every unit submitted before shutdown is eventually dequeued and
\* executed, exactly once and by exactly one worker, and its handle then
\* yields the unit's result; while it is pending it sits once in the queue
\* or on one worker, so no submission waits forever on a lost wake-up
C21_SubmittedUnitsRun ==
    /\ [](\A u \in Units :
            /\ pool.runs[u] <= 1
            /\ Cardinality(pool.ran_on[u]) = pool.runs[u]
            /\ pool.handles[u].state = "ready"
                  => pool.runs[u] = 1 /\ pool.handles[u].value = Result(u)
            /\ pool.handles[u].state = "pending"
                  => /\ pool.runs[u] = 0
                     /\ (u \in QueuedUnits) # (u \in InFlight)
                     /\ Cardinality({i \in 1..Len(pool.tasks) : pool.tasks[i] = u}) <= 1
                     /\ Cardinality({w \in DOMAIN pool.workers :
                                        pool.workers[w].pc = "run" /\ pool.workers[w].unit = u}) <= 1)
    /\ \A u \in Units :
          (pool.handles[u].state = "pending") ~> (pool.handles[u].state = "ready")

\* C21 witness: the destructor has returned and both submitted units were run
\* and their handles are ready
C21_Witness ==
    /\ pool.state = "destroyed"
    /\ \A u \in Units : pool.handles[u].state = "ready" /\ pool.runs[u] = 1

\* C22: a submission made after the stop signal fails with the pool-stopped
\* error: its unit is not put on the queue, no worker is notified for it, and
\* it is never executed; a unit is accepted or refused, never dropped silently
C22_SubmitAfterStopFails ==
    /\ [][\A u \in Units :
            (pool.stop_all /\ pool.handles[u].state = "none" /\ pool'.handles[u].state # "none")
               => /\ pool'.handles[u].state = "thrown"
                  /\ pool'.tasks = pool.tasks
                  /\ pool'.notify = pool.notify]_vars
    /\ [](\A u \in Units :
            pool.handles[u].state = "thrown"
               => /\ pool.runs[u] = 0
                  /\ u \notin QueuedUnits
                  /\ u \notin InFlight
                  /\ u \notin pool.notify)
    /\ [][\A u \in Units :
            pool.handles[u].state = "thrown" => pool'.handles[u].state = "thrown"]_vars

\* C22 witness: the destructor has returned, one unit was submitted before the
\* stop signal and ran, the other was submitted after it and was refused
C22_Witness ==
    /\ pool.state = "destroyed"
    /\ pool.handles["u1"].state = "ready"
    /\ pool.handles["u2"].state = "thrown"

\* C23: constructing the pool with zero threads fails: no worker is started,
\* and there is no pool that takes submissions; a pool that exists has at
\* least one worker
C23_ZeroThreadsFails ==
    /\ [][(pool.state = "none" /\ pool'.state # "none")
             => (pool'.state = "failed") = (Len(pool'.workers) = 0)]_vars
    /\ [](pool.state = "failed"
             => /\ pool.workers = <<>>
                /\ pool.tasks = <<>>
                /\ \A u \in Units : pool.handles[u].state = "none" /\ pool.runs[u] = 0)
    /\ [][pool.state = "failed" => pool'.state = "failed"]_vars

\* C23 witness: the constructor was called with zero threads and threw
C23_Witness ==
    /\ pool.state = "failed"
    /\ pool.workers = <<>>

-----------------------------------------------------------------------------
(* Claims about the order of a call's steps *)

\* the positions of a call's events of one kind, and those about one cid
EventsOf(E, kind) == {j \in 1..Len(E) : E[j].kind = kind}
EventsOn(E, kind, cid) == {j \in EventsOf(E, kind) : E[j].cid = cid}

\* C24: within one upload or update, a chunk's CID is computed before the
\* chunk is persisted, the chunk is persisted before its count is
\* incremented, and the metadata is persisted only after every chunk of the
\* call was persisted and incremented
C24_UploadOrder ==
    /\ [](Running =>
            LET E == threads[Caller].events
            IN  /\ \A j \in EventsOf(E, "save") :
                      \E i \in EventsOn(E, "cid", E[j].cid) : i < j
                /\ \A j \in EventsOf(E, "increment") :
                      Cardinality({i \in EventsOn(E, "save", E[j].cid) : i < j})
                         >= Cardinality({i \in EventsOn(E, "increment", E[j].cid) : i <= j})
                /\ \A j \in EventsOf(E, "metadata_save") :
                      /\ Cardinality({i \in EventsOf(E, "save") : i < j})
                            = Len(threads[Caller].chunks)
                      /\ Cardinality({i \in EventsOf(E, "increment") : i < j})
                            = Len(threads[Caller].chunks))
    /\ [][Running /\ Running' =>
            LET f == threads[Caller]
            IN  /\ \A c \in (DOMAIN chunk_files') \ (DOMAIN chunk_files) :
                      /\ EventsOn(f.events, "cid", c) # {}
                      /\ c = generateSHA256(chunk_files'[c])
                /\ \A c \in DOMAIN reference_counts' :
                      getCount(reference_counts', c) > getCount(reference_counts, c)
                         => /\ ChunkExists(chunk_files, c)
                            /\ EventsOn(f.events, "save", c) # {}
                /\ (metadata_files' # metadata_files /\ f.call # "deleteFile")
                      => \A i \in 1..Len(f.chunks) :
                            /\ ChunkExists(chunk_files, f.chunks[i].cid)
                            /\ Cardinality(EventsOn(f.events, "increment", f.chunks[i].cid))
                                  = Occurrences([k \in 1..Len(f.chunks) |-> f.chunks[k].cid],
                                                f.chunks[i].cid)]_vars

\* C24 witness: an update of two chunks has written its metadata after both
\* were saved and incremented
C24_Witness ==
    /\ Running
    /\ threads[Caller].call = "updateFile"
    /\ threads[Caller].pc = "return"
    /\ Len(threads[Caller].chunks) = 2
    /\ EventsOf(threads[Caller].events, "metadata_save") # {}

\* C25: within the removal pass of a delete or an update, a chunk file is
\* removed only after the decrement of its CID in that pass returned 0; in a
\* delete the metadata file is removed only after every CID of the record
\* was processed
C25_RemovalOrder ==
    /\ [](Running =>
            LET E == threads[Caller].events
            IN  /\ \A j \in EventsOf(E, "remove") :
                      /\ j > 1
                      /\ E[j - 1] = Event("decrement", E[j].cid, 0)
                /\ \A j \in EventsOf(E, "metadata_remove") :
                      Cardinality({i \in EventsOf(E, "decrement") : i < j})
                         = Len(threads[Caller].to_remove))
    /\ [][Running /\ Running' =>
            LET f == threads[Caller]
            IN  /\ \A c \in (DOMAIN chunk_files) \ (DOMAIN chunk_files') :
                      /\ f.events # <<>>
                      /\ f.events[Len(f.events)] = Event("decrement", c, 0)
                      /\ f.to_remove[f.ridx] = c
                      /\ getCount(reference_counts, c) = 0
                /\ (metadata_files' # metadata_files /\ f.call = "deleteFile")
                      => /\ f.ridx = Len(f.to_remove) + 1
                         /\ \A i \in 1..Len(f.to_remove) :
                               EventsOn(f.events, "decrement", f.to_remove[i]) # {}]_vars

\* C25 witness: a delete has removed a chunk file and then its metadata file
C25_Witness ==
    /\ Running
    /\ threads[Caller].call = "deleteFile"
    /\ EventsOf(threads[Caller].events, "remove") # {}
    /\ EventsOf(threads[Caller].events, "metadata_remove") # {}

-----------------------------------------------------------------------------
(* C26 - update collects the dropped chunks *)

\* C26: after a successful update, every CID that the old record lists, the
\* new record does not list and no other stored record lists has count 0 and
\* no chunk file, also when the CID occurred more than once in the old record
\* (runs in which processFileIntoChunks handed out a torn CID are left aside).
C26_UpdateCollectsDropped ==
    [][\A name \in Filenames, input \in InputFiles, type \in ContentTypes :
          (updateFile(name, input, type) /\ ret'.kind = "metadata" /\ ~raced') =>
             \A c \in CidSet(StoredCids(metadata_files, name)) :
                (c \notin CidSet(StoredCids(metadata_files', name))
                 /\ Referencing(metadata_files', c) = {})
                   => /\ getCount(reference_counts', c) = 0
                      /\ ~ChunkExists(chunk_files', c)
      ]_vars

-----------------------------------------------------------------------------
(* C27 - chunk files and counts agree *)

\* C27: between operations, with no failure, in one process lifetime and
\* from an empty store, a chunk file exists if and only if the reference
\* count of its CID is greater than 0
C27_FileIffCounted ==
    \A c \in KnownCids(metadata_files, chunk_files, reference_counts) :
       ChunkExists(chunk_files, c) <=> getCount(reference_counts, c) > 0

\* C27 witness: a delete has brought one CID to count 0 and removed its chunk
\* file while another chunk file is kept with a count above 0
C27_Witness ==
    /\ ret.call = "deleteFile"
    /\ ret.kind = "true"
    /\ \E c \in DOMAIN reference_counts :
          reference_counts[c] = 0 /\ ~ChunkExists(chunk_files, c)
    /\ \E c \in DOMAIN chunk_files : getCount(reference_counts, c) > 0

-----------------------------------------------------------------------------
(* C28 - what a successful save vouches for *)

\* C28: whenever save(chunk) returned success, as it has for every chunk of
\* an upload that returned a record, the chunk file exists and holds exactly
\* chunk.data, also when an earlier save of the same CID failed partway, and
\* the file's bytes hash to its filename
C28_SavedChunkIsWhole ==
    [][\A input \in InputFiles, name \in Filenames, type \in ContentTypes :
          (uploadFile(input, name, type) /\ ret'.kind = "metadata") =>
             \A i \in 1..Len(ReadChunks(input[1])) :
                LET chunk == ReadChunks(input[1])[i]
                IN  /\ ChunkExists(chunk_files', chunk.cid)
                    /\ chunk_files'[chunk.cid] = chunk.data
                    /\ generateSHA256(chunk_files'[chunk.cid]) = chunk.cid
      ]_vars

-----------------------------------------------------------------------------
(* C29 - concurrent saves of one CID *)

\* C29: concurrent saves of the same CID are safe: a save that finds the file
\* is a no-op, and no reader sees the chunk file with only part of its bytes:
\* an uploader that publishes its record after its saves returned finds each
\* of its chunks' files whole, and a retrieve that succeeds for a record with
\* the right CIDs writes the uploaded bytes
C29_ConcurrentSaves ==
    /\ [][\A t \in Threads :
            upload_SaveMetadata(t) =>
               \A i \in 1..Len(threads[t].chunks) :
                  /\ ChunkExists(chunk_files, threads[t].chunks[i].cid)
                  /\ chunk_files[threads[t].chunks[i].cid] = threads[t].chunks[i].data]_vars
    /\ [][\A name \in Filenames :
            (retrieveFile(name) /\ ret'.kind = "true"
             /\ StoredCids(metadata_files, name) = ChunkCidsOf(uploaded[name]))
               => output_file' = <<uploaded[name]>>]_vars

-----------------------------------------------------------------------------
(* C30 - the registry's calls serialize *)

\* one registry call made alone: the counts after it and what it returns
RegCall(counts, call) ==
    IF call.op = "increment" THEN [counts |-> increment(counts, call.cid), value |-> 0]
    ELSE IF call.op = "decrement" THEN decrement(counts, call.cid)
    ELSE [counts |-> counts, value |-> getCount(counts, call.cid)]

\* the final counts and the returned values of every sequential order of the
\* calls still to make (rem), each thread's calls in its program's order
RECURSIVE SequentialOutcomes(_, _, _)
SequentialOutcomes(counts, rem, rets) ==
    LET ready == {t \in DOMAIN rem : rem[t] # <<>>}
    IN  IF ready = {}
        THEN {[counts |-> counts, rets |-> rets]}
        ELSE UNION {LET r == RegCall(counts, Head(rem[t]))
                    IN  SequentialOutcomes(r.counts,
                                           [rem EXCEPT ![t] = Tail(@)],
                                           [rets EXCEPT ![t] = Append(@, r.value)]) :
                    t \in ready}

RegistryDone == threads # <<>> /\ \A t \in DOMAIN threads : threads[t].pc = "done"

\* how many calls of one kind on one cid the threads' programs hold
CallsOf(op, cid) ==
    LET n(t) == Cardinality({i \in 1..Len(threads[t].ops) :
                                threads[t].ops[i] = [op |-> op, cid |-> cid]})
        RECURSIVE Sum(_)
        Sum(S) == IF S = {} THEN 0
                  ELSE LET t == CHOOSE x \in S : TRUE IN n(t) + Sum(S \ {t})
    IN  Sum(DOMAIN threads)

\* C30: the registry's calls serialize: when the threads have made their
\* calls, the final counts and every returned value are those of some
\* sequential order of the calls, and when no decrement met an absent or zero
\* count the final count of a CID is its increments minus its decrements
C30_RegistrySerializes ==
    RegistryDone =>
       /\ [counts |-> reference_counts, rets |-> [t \in DOMAIN threads |-> threads[t].rets]]
             \in SequentialOutcomes(<<>>, [t \in DOMAIN threads |-> threads[t].ops],
                                    [t \in DOMAIN threads |-> <<>>])
       /\ (\A t \in DOMAIN threads : ~threads[t].on_zero)
             => \A c \in RegCids :
                   getCount(reference_counts, c)
                      = CallsOf("increment", c) - CallsOf("decrement", c)

\* C30 witness: two threads have finished, one incremented a CID twice, the
\* other's decrement and getCount of that CID fell between and after the two
\* increments
C30_Witness ==
    /\ DOMAIN threads = Threads
    /\ RegistryDone
    /\ threads["t1"].ops = <<[op |-> "increment", cid |-> 1], [op |-> "increment", cid |-> 1]>>
    /\ threads["t2"].ops = <<[op |-> "decrement", cid |-> 1], [op |-> "getCount", cid |-> 1]>>
    /\ threads["t2"].rets = <<0, 1>>
    /\ ~threads["t2"].on_zero

-----------------------------------------------------------------------------
(* Claims about the pool's shutdown and dispatch order *)

\* C31: shutdown runs only in-flight work: once the stop signal is set no
\* worker dequeues a unit any more, so a unit still in the queue at that
\* moment is never executed
C31_ShutdownRunsOnlyInFlight ==
    /\ [][pool.stop_all => pool'.dequeued = pool.dequeued]_vars
    /\ [][\A u \in Units :
            (pool.stop_all /\ u \in QueuedUnits) => pool'.runs[u] = 0]_vars

\* where worker w is in its loop; "none" when the pool has no worker w
WorkerAt(w) == IF w \in DOMAIN pool.workers THEN pool.workers[w].pc ELSE "none"

\* C32: shutdown never hangs: once the stop signal is set, every worker,
\* blocked on the queue or running a unit, eventually exits, and the
\* destructor that joins the workers eventually returns
C32_ShutdownTerminates ==
    /\ pool.stop_all ~> (pool.state = "destroyed")
    /\ \A w \in 1..PoolSize :
          (pool.stop_all /\ WorkerAt(w) \notin {"none", "exited"}) ~> (WorkerAt(w) = "exited")
    /\ [](pool.state = "destroyed"
             => \A w \in DOMAIN pool.workers : pool.workers[w].pc = "exited")

\* C32 witness: the destructor has returned from a pool in which one unit was
\* run and the other was never submitted
C32_Witness ==
    /\ pool.state = "destroyed"
    /\ Len(pool.workers) = PoolSize
    /\ pool.runs["u1"] = 1
    /\ pool.handles["u2"].state = "none"

IsPrefix(a, b) == Len(a) <= Len(b) /\ SubSeq(b, 1, Len(a)) = a

\* the place of unit u in the order of submission
SubmittedAt(u) == CHOOSE i \in 1..Len(pool.submitted) : pool.submitted[i] = u

\* C33 as stated: units are dequeued in the order of their submission, a
\* unit submitted earlier is never started after the dequeue of a unit
\* submitted later, and at most N units execute at the same time on N workers
C33_FifoStart ==
    /\ [](IsPrefix(pool.dequeued, pool.submitted))
    /\ [](Cardinality(InFlight) <= Len(pool.workers))
    /\ [][\A u \in Units :
            pool'.runs[u] > pool.runs[u]
               => \A i \in 1..Len(pool.dequeued) :
                     SubmittedAt(pool.dequeued[i]) <= SubmittedAt(u)]_vars

\* C33 amended: units are dequeued in the order of their submission, and at
\* most N units are held by the N workers at the same time; the order in
\* which dequeued units start is not fixed
C33_FifoDequeue ==
    /\ [](IsPrefix(pool.dequeued, pool.submitted))
    /\ [](Cardinality(InFlight) <= Len(pool.workers))
    /\ [][pool'.dequeued # pool.dequeued
             => /\ pool.tasks # <<>>
                /\ pool'.dequeued = Append(pool.dequeued, Head(pool.tasks))
                /\ pool'.tasks = Tail(pool.tasks)]_vars

\* C33 witness: two units were submitted, dequeued in that order by two
\* workers, and both are held at the same time
C33_Witness ==
    /\ pool.submitted = <<"u2", "u1">>
    /\ pool.dequeued = <<"u2", "u1">>
    /\ Cardinality(InFlight) = 2

-----------------------------------------------------------------------------
(* C34 - delete against a concurrent upload of a shared chunk *)

\* C34: under concurrent operations on distinct filenames that share a chunk,
\* no record is left stored that names a chunk file absent from disk: when
\* no call is in progress, every CID listed by a stored record has its chunk
\* file (runs in which processFileIntoChunks handed out a torn CID are left
\* aside)
C34_NoRecordOutlivesChunk ==
    ((\A t \in DOMAIN threads : threads[t].pc = "done") /\ ~raced) =>
       \A f \in DOMAIN metadata_files :
          \A cid \in CidSet(StoredCids(metadata_files, f)) : ChunkExists(chunk_files, cid)

-----------------------------------------------------------------------------
(* C35 - the per-chunk units read a stable chunk list *)

\* C35: no per-chunk unit reads the chunk list while the submitting thread
\* appends to it, so each handle yields the CID of the chunk at its own
\* index: the record an upload or update returns lists, position by
\* position, the CIDs of the chunks of its input
C35_HandlesYieldOwnCid ==
    [][(ret'.call \in {"uploadFile", "updateFile"} /\ ret'.kind = "metadata" /\ ncalls' > ncalls)
          => /\ TornCID \notin CidSet(ret'.metadata[1].chunk_cids)
             /\ ret'.metadata[1].chunk_cids = ChunkCidsOf(uploaded'[ret'.name])
             /\ ~raced'
      ]_vars

-----------------------------------------------------------------------------
(* C36 - update with a missing new input *)

\* C36: an update of an existing file whose new input is missing or
\* unreadable fails and leaves the old metadata record, every reference
\* count and every chunk file unchanged, so the file is still retrievable
\* with what a retrieve gave before
C36_UpdateMissingInput ==
    [][\A name \in Filenames, type \in ContentTypes :
          (updateFile(name, <<>>, type) /\ MetadataExists(metadata_files, name)) =>
             /\ ret' = Returned("updateFile", name, "throw", <<>>)
             /\ metadata_files' = metadata_files
             /\ reference_counts' = reference_counts
             /\ chunk_files' = chunk_files
             /\ unparsable_metadata' = unparsable_metadata
             /\ RetrieveResult(metadata_files', chunk_files', output_file', name)
                = RetrieveResult(metadata_files, chunk_files, output_file, name)
      ]_vars

\* C36 witness: an update of a stored file with chunks has thrown
C36_Witness ==
    /\ ret.call = "updateFile"
    /\ ret.kind = "throw"
    /\ MetadataExists(metadata_files, ret.name)
    /\ StoredCids(metadata_files, ret.name) # <<>>

-----------------------------------------------------------------------------
(* C37 - what retrieve leaves alone *)

\* C37: retrieve never changes stored state (reference counts, chunk files,
\* metadata records), and a retrieve of a filename that has no metadata
\* record leaves a file that already existed at the output path untouched
C37_RetrieveFrame ==
    [][\A name \in Filenames :
          retrieveFile(name) =>
             /\ reference_counts' = reference_counts
             /\ chunk_files' = chunk_files
             /\ metadata_files' = metadata_files
             /\ ~MetadataExists(metadata_files, name) => output_file' = output_file
      ]_vars

====
